---- MODULE Spec2Model ----
(***************************************************************************)
(* Model of the JeLLyFysh event-chain Monte Carlo kernel.                  *)
(*                                                                         *)
(* Part 1: SingleActiveCellOccupancy                                       *)
(*   (jellyfysh/activator/internal_state/single_active_cell_occupancy.py)  *)
(* The cell-occupancy system maps the identifiers of the units on one      *)
(* level of the state tree onto cells.  Each cell stores at most           *)
(* maximum_number_occupants identifiers, further identifiers are kept in   *)
(* the surplus dictionary, and the single active unit is stored apart.     *)
(*                                                                         *)
(* Python values: None is the string "None"; a list is a sequence; a dict  *)
(* with insertion order is a sequence of (key, value) entries; an          *)
(* identifier tuple (i,) or (i, j) is the sequence <<i>> or <<i, j>>.      *)
(* None is the empty tuple where identifiers are expected and cell 0 where *)
(* cells are expected.  A position enters the class only through           *)
(* cells.position_to_cell, so a unit carries the cell of its position in   *)
(* the field "cell".                                                       *)
(***************************************************************************)
EXTENDS Integers, Sequences, FiniteSets, TLC

\* Bounds of the model.
NumberOfRootNodes == 2
NumberOfCells == 2
MaxNumberOccupants == 2

\* Settings of the tree state handler (two node levels, two nodes per root node).
NumberOfNodeLevels == 2
NumberOfNodesPerRootNode == 2

\* None as a charge argument, as an identifier and as a cell.
None == "None"
NoneIdentifier == <<>>
NoneCell == 0

ChargeName == "charge"
ChargeValues == {0, 1}
Cells == 1..NumberOfCells

VARIABLES
    cell_level,                 \* self._cell_level
    maximum_number_occupants,   \* self._maximum_number_occupants
    charge,                     \* the charge argument of the constructor (None or a charge name)
    occupants,                  \* self._occupants: cell -> list of identifiers
    surplus,                    \* self._surplus: dict cell -> list of identifiers (insertion ordered)
    active_unit_identifier,     \* self._active_unit_identifier
    active_cell,                \* self._active_cell
    unit_charge,                \* the state tree: charge of every leaf unit (fixed during a run)
    pc,                         \* "constructed", "initialized", or the exception that ended the run
    call,                       \* the last call made on the object and what it received
    setting,                    \* the setting module read by the event handlers
    cell_veto,                  \* the LeafUnitCellVetoEventHandler instance of the run
    end_of_run,                 \* the FinalTimeEndOfRunEventHandler instance of the run
    end_of_chain,               \* the end-of-chain event handler instance of the run
    handler_call,               \* the last call made on an event handler, with what it returned
    scheduler                   \* the event loop of the mediator: candidate times and committed events

occupancy_vars == <<cell_level, maximum_number_occupants, charge, occupants, surplus,
                    active_unit_identifier, active_cell, unit_charge, pc, call>>

handler_vars == <<setting, cell_veto, end_of_run, end_of_chain, handler_call, scheduler>>

vars == <<cell_level, maximum_number_occupants, charge, occupants, surplus,
          active_unit_identifier, active_cell, unit_charge, pc, call,
          setting, cell_veto, end_of_run, end_of_chain, handler_call, scheduler>>

\* An event handler that is not part of the run.
NoHandler == [pc |-> "None"]

\* No event loop runs: the methods are called one by one.
NoScheduler == [phase |-> "None"]

----------------------------------------------------------------------------
\* Python list and dict helpers.

Contains(list, x) == \E i \in 1..Len(list) : list[i] = x

\* list.remove(x): removes the first occurrence (the caller checks Contains, else ValueError).
ListRemove(list, x) ==
    LET i == CHOOSE k \in 1..Len(list) : list[k] = x /\ \A m \in 1..(k - 1) : list[m] # x
    IN  SubSeq(list, 1, i - 1) \o SubSeq(list, i + 1, Len(list))

\* list.pop(): removes the last element (the caller checks the list is not empty, else IndexError).
ListPop(list) == SubSeq(list, 1, Len(list) - 1)

DictHasKey(dict, key) == \E i \in 1..Len(dict) : dict[i].key = key

DictIndex(dict, key) == CHOOSE i \in 1..Len(dict) : dict[i].key = key

\* dict.get(key, default)
DictGet(dict, key, default) ==
    IF DictHasKey(dict, key) THEN dict[DictIndex(dict, key)].value ELSE default

\* dict[key] = value for a key already present
DictSet(dict, key, value) ==
    [i \in 1..Len(dict) |-> IF dict[i].key = key THEN [key |-> key, value |-> value] ELSE dict[i]]

\* dict.setdefault(key, []).append(x)
DictSetdefaultAppend(dict, key, x) ==
    IF DictHasKey(dict, key)
    THEN DictSet(dict, key, Append(DictGet(dict, key, <<>>), x))
    ELSE Append(dict, [key |-> key, value |-> <<x>>])

\* del dict[key]
DictDel(dict, key) ==
    LET i == DictIndex(dict, key)
    IN  SubSeq(dict, 1, i - 1) \o SubSeq(dict, i + 1, Len(dict))

\* Python truth value of dict.get(key, True) where the values are lists:
\* True for a missing key, and for a present key the truth value of the list (non-empty).
DictGetTrueIsTruthy(dict, key) ==
    IF DictHasKey(dict, key) THEN Len(DictGet(dict, key, <<>>)) > 0 ELSE TRUE

----------------------------------------------------------------------------
\* The tree of nodes (base.node.Node): a node has a value (the unit) and children.

RECURSIVE FlattenSeqs(_)
FlattenSeqs(seqs) ==
    IF Len(seqs) = 0 THEN <<>> ELSE Head(seqs) \o FlattenSeqs(Tail(seqs))

\* yield_nodes_on_level_below(node, level): the nodes level generations below node, in order.
RECURSIVE yield_nodes_on_level_below(_, _)
yield_nodes_on_level_below(node, level) ==
    IF level = 0 THEN <<node>>
    ELSE FlattenSeqs([i \in 1..Len(node.children) |->
                        yield_nodes_on_level_below(node.children[i], level - 1)])

\* The units on the cell level of a sequence of branches, in traversal order (lines 112-114, 172-173).
UnitsOnCellLevel(branches) ==
    LET nodes == FlattenSeqs([i \in 1..Len(branches) |->
                                yield_nodes_on_level_below(branches[i], cell_level - 1)])
    IN  [i \in 1..Len(nodes) |-> nodes[i].value]

\* self._number_occupants_not_bounded of the CellOccupancy base class.
NumberOccupantsNotBounded == maximum_number_occupants <= 0

\* self._is_relevant_unit (line 92).
IsRelevantUnit(unit) ==
    IF charge # None THEN unit.charge[charge] # 0 ELSE TRUE

----------------------------------------------------------------------------
\* The state tree handed to the class by the tree state handler.

RootIndices == 0..(NumberOfRootNodes - 1)
NodeIndices == 0..(NumberOfNodesPerRootNode - 1)
RootIdentifiers == {<<i>> : i \in RootIndices}
LeafIdentifiers == {<<i, j>> : i \in RootIndices, j \in NodeIndices}

\* A leaf unit carries a charge dictionary, a composite (root) unit carries no charge.
LeafNode(i, j, cell, value) ==
    [value |-> [identifier |-> <<i, j>>, cell |-> cell, charge |-> [n \in {ChargeName} |-> value]],
     children |-> <<>>]

RootNode(i, cell, children) ==
    [value |-> [identifier |-> <<i>>, cell |-> cell, charge |-> None],
     children |-> children]

\* The full extracted global state: every root node with all its leaf nodes, in order.
GlobalState(root_cell, leaf_cell, leaf_charge) ==
    [r \in 1..NumberOfRootNodes |->
        RootNode(r - 1, root_cell[r - 1],
                 [n \in 1..NumberOfNodesPerRootNode |->
                    LeafNode(r - 1, n - 1, leaf_cell[<<r - 1, n - 1>>], leaf_charge[<<r - 1, n - 1>>])])]

\* The global states drawn for initialize.  A field the configured instance never reads
\* (the position of a unit off the cell level, the charge without a charge filter)
\* takes a single value.
RootCellChoices == IF cell_level = 1 THEN [RootIndices -> Cells] ELSE [RootIndices -> {1}]
LeafCellChoices == IF cell_level = NumberOfNodeLevels THEN [LeafIdentifiers -> Cells] ELSE [LeafIdentifiers -> {1}]
LeafChargeChoices == IF charge # None THEN [LeafIdentifiers -> ChargeValues] ELSE [LeafIdentifiers -> {1}]

\* The identifiers of the relevant units on the cell level (the population of the index).
RelevantIdentifiers ==
    IF cell_level = 1 THEN RootIdentifiers
    ELSE {id \in LeafIdentifiers : charge = None \/ unit_charge[id] # 0}

----------------------------------------------------------------------------
\* SingleActiveCellOccupancy

\* The attributes of the object as one record, with the exception raised so far.
Self == [occupants |-> occupants, surplus |-> surplus,
         active_unit_identifier |-> active_unit_identifier, active_cell |-> active_cell,
         raised |-> None]

\* Mutant of InitializeUnit: the capacity of the cell is not looked at.
InitializeUnit_IgnoreCapacity(st, unit) ==
    IF IsRelevantUnit(unit)
    THEN [st EXCEPT !.occupants[unit.cell] = Append(@, unit.identifier)]
    ELSE st

\* Mutant of InitializeUnit: the unbounded case is forgotten.
InitializeUnit_OneMore(st, unit) ==
    IF IsRelevantUnit(unit)
    THEN LET cell == unit.cell
         IN  IF Len(st.occupants[cell]) <= maximum_number_occupants \/ NumberOccupantsNotBounded
             THEN [st EXCEPT !.occupants[cell] = Append(@, unit.identifier)]
             ELSE [st EXCEPT !.surplus = DictSetdefaultAppend(@, cell, unit.identifier)]
    ELSE st

InitializeUnit_BoundedOnly(st, unit) ==
    IF IsRelevantUnit(unit)
    THEN LET cell == unit.cell
         IN  IF Len(st.occupants[cell]) < maximum_number_occupants
             THEN [st EXCEPT !.occupants[cell] = Append(@, unit.identifier)]
             ELSE [st EXCEPT !.surplus = DictSetdefaultAppend(@, cell, unit.identifier)]
    ELSE st

\* initialize, lines 115-121: store one unit of the cell level.
InitializeUnit(st, unit) ==
    IF IsRelevantUnit(unit)
    THEN LET cell == unit.cell
         IN  IF Len(st.occupants[cell]) < maximum_number_occupants \/ NumberOccupantsNotBounded
             THEN [st EXCEPT !.occupants[cell] = Append(@, unit.identifier)]
             ELSE [st EXCEPT !.surplus = DictSetdefaultAppend(@, cell, unit.identifier)]
    ELSE st

\* Mutant of InitializeUnits: the units are stored in reverse order.
RECURSIVE InitializeUnits_Reversed(_, _)
InitializeUnits_Reversed(st, units) ==
    IF Len(units) = 0 THEN st
    ELSE InitializeUnit(InitializeUnits_Reversed(st, Tail(units)), Head(units))

\* initialize, lines 112-121: the loop over the units of the cell level.
RECURSIVE InitializeUnits(_, _)
InitializeUnits(st, units) ==
    IF Len(units) = 0 THEN st
    ELSE InitializeUnits(InitializeUnit(st, Head(units)), Tail(units))

\* Mutant of ReturnPreviousActive: the previous active identifier always goes to the occupants.
ReturnPreviousActive_IgnoreCapacity(st) ==
    IF st.active_unit_identifier # NoneIdentifier
    THEN [st EXCEPT !.occupants[st.active_cell] = Append(@, st.active_unit_identifier)]
    ELSE st

\* Mutant of ReturnPreviousActive: the previous active identifier is dropped when the cell is full.
ReturnPreviousActive_DropWhenFull(st) ==
    IF st.active_unit_identifier # NoneIdentifier
    THEN IF Len(st.occupants[st.active_cell]) < maximum_number_occupants \/ NumberOccupantsNotBounded
         THEN [st EXCEPT !.occupants[st.active_cell] = Append(@, st.active_unit_identifier)]
         ELSE st
    ELSE st

\* update, lines 177-182: return the previous active identifier to the index.
ReturnPreviousActive(st) ==
    IF st.active_unit_identifier # NoneIdentifier
    THEN IF Len(st.occupants[st.active_cell]) < maximum_number_occupants \/ NumberOccupantsNotBounded
         THEN [st EXCEPT !.occupants[st.active_cell] = Append(@, st.active_unit_identifier)]
         ELSE [st EXCEPT !.surplus = DictSetdefaultAppend(@, st.active_cell, st.active_unit_identifier)]
    ELSE st

DeleteEmptySurplus_Never(st, cell) == st

\* update, lines 196-198: delete the surplus list of the cell if it is now empty.
DeleteEmptySurplus(st, cell) ==
    IF ~DictGetTrueIsTruthy(st.surplus, cell)
    THEN [st EXCEPT !.surplus = DictDel(@, cell)]
    ELSE st

\* update, lines 189-192: possibly move an identifier from the surplus list into the occupants list.
PromoteSurplus(st, cell) ==
    IF ~DictGetTrueIsTruthy(st.surplus, cell)
    THEN LET list == DictGet(st.surplus, cell, <<>>)
         IN  IF Len(list) = 0
             THEN [st EXCEPT !.raised = "IndexError"]
             ELSE [st EXCEPT !.occupants[cell] = Append(@, list[Len(list)]),
                             !.surplus = DictSet(@, cell, ListPop(list))]
    ELSE st

\* Mutant of TrackNewActive: the new active identifier stays in the index.
TrackNewActive_NoRemoval(st, new_active_unit) ==
    [st EXCEPT !.active_cell = new_active_unit.cell,
               !.active_unit_identifier = new_active_unit.identifier]

\* update, lines 185-198: track the new relevant active unit and take it out of the index.
TrackNewActive(st, new_active_unit) ==
    LET cell == new_active_unit.cell
        identifier == new_active_unit.identifier
        s1 == [st EXCEPT !.active_cell = cell, !.active_unit_identifier = identifier]
    IN  IF Contains(s1.occupants[cell], identifier)
        THEN LET s2 == PromoteSurplus([s1 EXCEPT !.occupants[cell] = ListRemove(@, identifier)], cell)
             IN  IF s2.raised # None THEN s2 ELSE DeleteEmptySurplus(s2, cell)
        ELSE \* ValueError of occupants.remove: the new active unit is looked up in the surplus list.
             IF ~DictHasKey(s1.surplus, cell)
             THEN [s1 EXCEPT !.raised = "KeyError"]
             ELSE IF ~Contains(DictGet(s1.surplus, cell, <<>>), identifier)
                  THEN [s1 EXCEPT !.raised = "ValueError"]
                  ELSE DeleteEmptySurplus(
                           [s1 EXCEPT !.surplus = DictSet(@, cell,
                                ListRemove(DictGet(s1.surplus, cell, <<>>), identifier))], cell)

\* Mutant of UpdateUnits: the assertion accepts several units and the first one is used.
UpdateUnits_AtLeastOne(st, active_units_on_cell_level) ==
    IF Len(active_units_on_cell_level) < 1
    THEN [st EXCEPT !.raised = "AssertionError"]
    ELSE LET new_active_unit == active_units_on_cell_level[1]
         IN  IF new_active_unit.identifier # st.active_unit_identifier
             THEN LET s1 == ReturnPreviousActive(st)
                  IN  IF IsRelevantUnit(new_active_unit)
                      THEN TrackNewActive(s1, new_active_unit)
                      ELSE [s1 EXCEPT !.active_unit_identifier = NoneIdentifier,
                                      !.active_cell = NoneCell]
             ELSE [st EXCEPT !.active_cell = new_active_unit.cell]

\* Mutant of UpdateUnits: the active cell is not determined again for an unchanged identifier.
UpdateUnits_KeepActiveCell(st, active_units_on_cell_level) ==
    IF Len(active_units_on_cell_level) # 1
    THEN [st EXCEPT !.raised = "AssertionError"]
    ELSE LET new_active_unit == active_units_on_cell_level[1]
         IN  IF new_active_unit.identifier # st.active_unit_identifier
             THEN LET s1 == ReturnPreviousActive(st)
                  IN  IF IsRelevantUnit(new_active_unit)
                      THEN TrackNewActive(s1, new_active_unit)
                      ELSE [s1 EXCEPT !.active_unit_identifier = NoneIdentifier,
                                      !.active_cell = NoneCell]
             ELSE st

\* Mutant of UpdateUnits: the active cell is kept when the new unit is not relevant.
UpdateUnits_KeepCellOfIrrelevant(st, active_units_on_cell_level) ==
    IF Len(active_units_on_cell_level) # 1
    THEN [st EXCEPT !.raised = "AssertionError"]
    ELSE LET new_active_unit == active_units_on_cell_level[1]
         IN  IF new_active_unit.identifier # st.active_unit_identifier
             THEN LET s1 == ReturnPreviousActive(st)
                  IN  IF IsRelevantUnit(new_active_unit)
                      THEN TrackNewActive(s1, new_active_unit)
                      ELSE [s1 EXCEPT !.active_unit_identifier = NoneIdentifier]
             ELSE [st EXCEPT !.active_cell = new_active_unit.cell]

UpdateUnits_RollBack(st, active_units_on_cell_level) ==
    IF Len(active_units_on_cell_level) # 1
    THEN [st EXCEPT !.raised = "AssertionError"]
    ELSE LET new_active_unit == active_units_on_cell_level[1]
         IN  IF new_active_unit.identifier # st.active_unit_identifier
             THEN LET s1 == ReturnPreviousActive(st)
                  IN  IF IsRelevantUnit(new_active_unit)
                      THEN LET s2 == TrackNewActive(s1, new_active_unit)
                           IN  IF s2.raised # None THEN [st EXCEPT !.raised = s2.raised] ELSE s2
                      ELSE [s1 EXCEPT !.active_unit_identifier = NoneIdentifier,
                                      !.active_cell = NoneCell]
             ELSE [st EXCEPT !.active_cell = new_active_unit.cell]

UpdateUnits_ReturnToCellOfNewUnit(st, active_units_on_cell_level) ==
    IF Len(active_units_on_cell_level) # 1
    THEN [st EXCEPT !.raised = "AssertionError"]
    ELSE LET new_active_unit == active_units_on_cell_level[1]
         IN  IF new_active_unit.identifier # st.active_unit_identifier
             THEN LET s1 == IF st.active_unit_identifier = NoneIdentifier THEN st
                            ELSE [ReturnPreviousActive([st EXCEPT !.active_cell = new_active_unit.cell])
                                    EXCEPT !.active_cell = st.active_cell]
                  IN  IF IsRelevantUnit(new_active_unit)
                      THEN TrackNewActive(s1, new_active_unit)
                      ELSE [s1 EXCEPT !.active_unit_identifier = NoneIdentifier,
                                      !.active_cell = NoneCell]
             ELSE [st EXCEPT !.active_cell = new_active_unit.cell]

\* update, lines 172-203, on the units found on the cell level.
UpdateUnits(st, active_units_on_cell_level) ==
    IF Len(active_units_on_cell_level) # 1
    THEN [st EXCEPT !.raised = "AssertionError"]
    ELSE LET new_active_unit == active_units_on_cell_level[1]
         IN  IF new_active_unit.identifier # st.active_unit_identifier
             THEN LET s1 == ReturnPreviousActive(st)
                  IN  IF IsRelevantUnit(new_active_unit)
                      THEN TrackNewActive(s1, new_active_unit)
                      ELSE [s1 EXCEPT !.active_unit_identifier = NoneIdentifier,
                                      !.active_cell = NoneCell]
             ELSE [st EXCEPT !.active_cell = new_active_unit.cell]

\* __getitem__, line 147.
Lookup(cell) == occupants[cell]

\* yield_surplus, lines 220-221.
YieldSurplus_FirstEntryOnly ==
    IF surplus = <<>> THEN <<>> ELSE surplus[1].value

YieldSurplus == FlattenSeqs([i \in 1..Len(surplus) |-> surplus[i].value])

\* yield_active_cells, lines 236-237.
YieldActiveCells ==
    IF active_cell # NoneCell THEN << <<active_cell, active_unit_identifier>> >> ELSE <<>>

----------------------------------------------------------------------------
\* The calls made on the object.

\* The active branches handed to update: some of the root nodes, in the order of the tree,
\* each with some of its leaf nodes, in order.  The charges are those of the state tree.
ChildSequences ==
    {js \in UNION {[1..n -> NodeIndices] : n \in 0..NumberOfNodesPerRootNode} :
        \A k \in 1..(Len(js) - 1) : js[k] < js[k + 1]}

BranchShapes == RootIndices \X ChildSequences

ActiveGlobalStateShapes ==
    {shapes \in UNION {[1..n -> BranchShapes] : n \in 0..NumberOfRootNodes} :
        \A b \in 1..(Len(shapes) - 1) : shapes[b][1] < shapes[b + 1][1]}

ActiveBranch(shape, cell) ==
    LET i == shape[1]
        js == shape[2]
    IN  RootNode(i, IF cell_level = 1 THEN cell ELSE 1,
                 [k \in 1..Len(js) |->
                    LeafNode(i, js[k], IF cell_level = NumberOfNodeLevels THEN cell ELSE 1,
                             unit_charge[<<i, js[k]>>])])

\* Every unit on the cell level lies in the given cell.
ExtractedActiveGlobalState(shapes, cell) ==
    [b \in 1..Len(shapes) |-> ActiveBranch(shapes[b], cell)]

\* The positions the caller may give: update reads a position only of a single unit.
PositionChoices(shapes) ==
    IF Len(UnitsOnCellLevel(ExtractedActiveGlobalState(shapes, 1))) = 1 THEN Cells ELSE {1}

ConstructorRaises_AnyCellLevel(level, name) == name # None

\* __init__, lines 87-88: the level stores composite point objects, which have no charge.
ConstructorRaises(level, name) == level < NumberOfNodeLevels /\ name # None

\* __init__, lines 86-93.
Init ==
    \E level \in 1..NumberOfNodeLevels, maximum \in (-1)..MaxNumberOccupants, name \in {None, ChargeName} :
        /\ cell_level = level
        /\ maximum_number_occupants = maximum
        /\ charge = name
        /\ pc = IF ConstructorRaises(level, name) THEN "ConfigurationError" ELSE "constructed"
        /\ surplus = <<>>
        /\ occupants = [cell \in Cells |-> <<>>]
        /\ active_unit_identifier = NoneIdentifier
        /\ active_cell = NoneCell
        /\ unit_charge = <<>>
        /\ call = [op |-> "__init__"]
        /\ setting = [number_of_node_levels |-> NumberOfNodeLevels,
                      number_of_nodes_per_root_node |-> NumberOfNodesPerRootNode,
                      number_of_root_nodes |-> NumberOfRootNodes]
        /\ cell_veto = NoHandler
        /\ end_of_run = NoHandler
        /\ end_of_chain = NoHandler
        /\ handler_call = [op |-> "None"]
        /\ scheduler = NoScheduler

\* initialize, lines 111-121.
Initialize ==
    /\ pc = "constructed"
    /\ \E root_cell \in RootCellChoices, leaf_cell \in LeafCellChoices, leaf_charge \in LeafChargeChoices :
      \E extracted_global_state \in {GlobalState(root_cell, leaf_cell, leaf_charge)} :
      \E st \in {InitializeUnits(Self, UnitsOnCellLevel(extracted_global_state))} :
            /\ occupants' = st.occupants
            /\ surplus' = st.surplus
            /\ unit_charge' = leaf_charge
            /\ call' = [op |-> "initialize", extracted_global_state |-> extracted_global_state]
    /\ pc' = "initialized"
    /\ UNCHANGED <<cell_level, maximum_number_occupants, charge, active_unit_identifier, active_cell>>
    /\ UNCHANGED handler_vars

\* The cell in which the tracked active unit was recorded before this update with its own
\* identifier moved the recorded active cell (lines 202-203); NoneCell when the update does
\* not move it.
ActiveMovedFrom(active_units_on_cell_level) ==
    IF Len(active_units_on_cell_level) = 1
          /\ active_units_on_cell_level[1].identifier = active_unit_identifier
          /\ active_unit_identifier # NoneIdentifier
          /\ active_units_on_cell_level[1].cell # active_cell
    THEN active_cell
    ELSE NoneCell

\* The same for the previous active unit, which an update with another identifier returns
\* to the index (lines 176-182), when the update directly before moved its recorded cell.
PreviousMovedFrom(active_units_on_cell_level) ==
    IF Len(active_units_on_cell_level) = 1
          /\ active_units_on_cell_level[1].identifier # active_unit_identifier
          /\ call.op = "update"
    THEN call.active_moved_from
    ELSE NoneCell

\* update, lines 172-203.  The public methods are used after initialize (lines 99-101); an
\* exception is not caught by the class and ends the run.
Update ==
    /\ pc = "initialized"
    /\ \E shapes \in ActiveGlobalStateShapes :
      \E cell \in PositionChoices(shapes) :
      \E active_units_on_cell_level \in {UnitsOnCellLevel(ExtractedActiveGlobalState(shapes, cell))} :
      \E st \in {UpdateUnits(Self, active_units_on_cell_level)} :
            /\ occupants' = st.occupants
            /\ surplus' = st.surplus
            /\ active_unit_identifier' = st.active_unit_identifier
            /\ active_cell' = st.active_cell
            /\ pc' = IF st.raised # None THEN st.raised ELSE pc
            /\ call' = [op |-> "update",
                        active_units_on_cell_level |-> active_units_on_cell_level,
                        previous_active_unit_identifier |-> active_unit_identifier,
                        active_moved_from |-> ActiveMovedFrom(active_units_on_cell_level),
                        previous_moved_from |-> PreviousMovedFrom(active_units_on_cell_level)]
    /\ UNCHANGED <<cell_level, maximum_number_occupants, charge, unit_charge>>
    /\ UNCHANGED handler_vars

\* yield_surplus, lines 220-221, with the generator run to its end.  The generator reads the
\* surplus dictionary and assigns nothing; the call record notes whether the preceding call
\* was a yield_surplus as well.
YieldSurplusCall ==
    /\ pc \in {"constructed", "initialized"}
    /\ call' = [op |-> "yield_surplus", result |-> YieldSurplus,
                repeated |-> (call.op = "yield_surplus")]
    /\ UNCHANGED <<cell_level, maximum_number_occupants, charge, occupants, surplus,
                   active_unit_identifier, active_cell, unit_charge, pc>>
    /\ UNCHANGED handler_vars

Next == Initialize \/ Update \/ YieldSurplusCall

Spec == Init /\ [][Next]_vars

----------------------------------------------------------------------------
\* Properties of SingleActiveCellOccupancy.

\* The object is initialized and no call has raised.
Usable == pc = "initialized"

Occurrences(list, x) == Cardinality({i \in 1..Len(list) : list[i] = x})

\* Every identifier held in an occupant list or in a surplus list.
StoredIdentifiers == FlattenSeqs([cell \in 1..NumberOfCells |-> Lookup(cell)]) \o YieldSurplus

AllIdentifiers == RootIdentifiers \cup LeafIdentifiers

\* The last call was an update that passed the assertion on the number of units.
UpdatedWithOneUnit == call.op = "update" /\ Len(call.active_units_on_cell_level) = 1

NewActiveUnit == call.active_units_on_cell_level[1]

\* C1: with maximum_number_occupants = K > 0, after initialize and after any sequence of
\* successful updates every cell's occupant list holds at most K identifiers.
C1_CapacityBound ==
    (Usable /\ maximum_number_occupants > 0) =>
        \A cell \in Cells : Len(Lookup(cell)) <= maximum_number_occupants

\* An update returned the previous active identifier to a cell that is full and has surplus.
C1_Witness ==
    /\ Usable /\ UpdatedWithOneUnit
    /\ maximum_number_occupants > 0
    /\ call.previous_active_unit_identifier # NoneIdentifier
    /\ call.previous_active_unit_identifier # active_unit_identifier
    /\ \E cell \in Cells : /\ Len(Lookup(cell)) = maximum_number_occupants
                           /\ DictHasKey(surplus, cell)

\* C2: after initialize and after any sequence of successful updates, the occupant lists,
\* the surplus lists and the active identifier together hold every relevant identifier of
\* the cell level exactly once and no other identifier.
C2_PopulationConservation ==
    Usable =>
        \A id \in AllIdentifiers :
            Occurrences(StoredIdentifiers, id) + (IF active_unit_identifier = id THEN 1 ELSE 0)
                = (IF id \in RelevantIdentifiers THEN 1 ELSE 0)

\* An update exchanged the active unit while a surplus list exists.
C2_Witness ==
    /\ Usable /\ UpdatedWithOneUnit
    /\ active_unit_identifier # NoneIdentifier
    /\ call.previous_active_unit_identifier # NoneIdentifier
    /\ call.previous_active_unit_identifier # active_unit_identifier
    /\ surplus # <<>>

\* C3: after initialize and after any sequence of successful updates, the active identifier
\* is in no occupant list and in no surplus list: lookup and yield_surplus never emit it.
C3_ActiveExclusivity ==
    (Usable /\ active_unit_identifier # NoneIdentifier) =>
        /\ \A cell \in Cells : ~Contains(Lookup(cell), active_unit_identifier)
        /\ ~Contains(YieldSurplus, active_unit_identifier)

\* A unit is active in a cell that still has occupants and surplus.
C3_Witness ==
    /\ Usable /\ UpdatedWithOneUnit
    /\ active_unit_identifier # NoneIdentifier
    /\ Len(Lookup(active_cell)) > 0
    /\ YieldSurplus # <<>>

\* The step is a call of update on a usable object that passes the assertion on the number of
\* units and receives a unit whose identifier differs from the tracked active identifier.
UpdateWithOtherUnit ==
    /\ Usable
    /\ call'.op = "update"
    /\ Len(call'.active_units_on_cell_level) = 1
    /\ call'.active_units_on_cell_level[1].identifier # active_unit_identifier

\* C4: when update removes the new relevant active identifier from the occupant list of its
\* cell and that cell has at least one surplus identifier, exactly one surplus identifier of
\* the cell is moved into the vacated occupant slot during the same update.  (Stated for the
\* updates in which the previous active identifier, if any, is returned to another cell.)
C4_SurplusPromotion ==
    [][(/\ UpdateWithOtherUnit
        /\ IsRelevantUnit(call'.active_units_on_cell_level[1])
        /\ active_cell # call'.active_units_on_cell_level[1].cell
        /\ Contains(Lookup(call'.active_units_on_cell_level[1].cell),
                    call'.active_units_on_cell_level[1].identifier)
        /\ DictHasKey(surplus, call'.active_units_on_cell_level[1].cell))
       => LET cell == call'.active_units_on_cell_level[1].cell
              before == DictGet(surplus, cell, <<>>)
              after == DictGet(surplus', cell, <<>>)
          IN  /\ Len(after) = Len(before) - 1
              /\ Len(occupants'[cell]) = Len(occupants[cell])
              /\ \E k \in 1..Len(before) :
                    /\ Contains(occupants'[cell], before[k])
                    /\ ~Contains(after, before[k])]_vars

\* C5 as stated: update fails with an assertion whenever the number of relevant units on the
\* cell level of the active branches is not exactly one.
C5_Original ==
    [][(/\ Usable /\ call'.op = "update"
        /\ Cardinality({k \in 1..Len(call'.active_units_on_cell_level) :
                            IsRelevantUnit(call'.active_units_on_cell_level[k])}) # 1)
       => pc' = "AssertionError"]_vars

\* C5 amended: update fails with an assertion whenever the number of units on the cell level
\* of the active branches, relevant or not, is not exactly one; a single unit that fails the
\* relevance filter does not trip the assertion.
C5_ExactlyOneUnit ==
    [][(Usable /\ call'.op = "update")
       => /\ Len(call'.active_units_on_cell_level) # 1 => pc' = "AssertionError"
          /\ Len(call'.active_units_on_cell_level) = 1 => pc' # "AssertionError"]_vars

\* update was called with several units on the cell level and failed.
C5_Witness ==
    /\ pc = "AssertionError"
    /\ call.op = "update"
    /\ Len(call.active_units_on_cell_level) > 1

\* C6: when update receives a unit whose identifier differs from the tracked active
\* identifier, the previous active identifier is appended to the occupant list of its cell if
\* that list is below capacity or the capacity is unbounded, and to the surplus list of that
\* cell otherwise; afterwards it is stored exactly once.
C6_ReturnOfPreviousActive ==
    [][(UpdateWithOtherUnit /\ active_unit_identifier # NoneIdentifier)
       => LET below == Len(occupants[active_cell]) < maximum_number_occupants
                       \/ maximum_number_occupants <= 0
              list == IF below THEN occupants'[active_cell]
                      ELSE DictGet(surplus', active_cell, <<>>)
          IN  /\ Len(list) > 0
              /\ list[Len(list)] = active_unit_identifier
              /\ Occurrences(StoredIdentifiers', active_unit_identifier) = 1]_vars

\* An update returned the previous active identifier to the surplus list of a full cell.
C6_Witness ==
    /\ UpdatedWithOneUnit
    /\ call.previous_active_unit_identifier # NoneIdentifier
    /\ call.previous_active_unit_identifier # NewActiveUnit.identifier
    /\ Contains(YieldSurplus, call.previous_active_unit_identifier)

\* C7: update with a unit whose identifier equals the tracked active identifier leaves the
\* occupant lists, the surplus lists and the active identifier unchanged and sets the active
\* cell to the cell of the unit's position.
C7_UnchangedIdentifier ==
    [][(/\ Usable
        /\ call'.op = "update"
        /\ Len(call'.active_units_on_cell_level) = 1
        /\ call'.active_units_on_cell_level[1].identifier = active_unit_identifier)
       => /\ UNCHANGED <<occupants, surplus, active_unit_identifier, pc>>
          /\ active_cell' = call'.active_units_on_cell_level[1].cell]_vars

\* update was called with the active unit while its cell holds other identifiers.
C7_Witness ==
    /\ Usable /\ UpdatedWithOneUnit
    /\ call.previous_active_unit_identifier = NewActiveUnit.identifier
    /\ StoredIdentifiers # <<>>

\* C8: with maximum_number_occupants <= 0 the surplus dictionary is empty after initialize and
\* after any sequence of updates, and yield_surplus yields nothing.
C8_UnboundedNoSurplus ==
    maximum_number_occupants <= 0 => (surplus = <<>> /\ YieldSurplus = <<>>)

\* With unbounded capacity an update returned the previous active identifier to a cell that
\* then holds several identifiers.
C8_Witness ==
    /\ Usable /\ UpdatedWithOneUnit
    /\ maximum_number_occupants <= 0
    /\ call.previous_active_unit_identifier # NoneIdentifier
    /\ call.previous_active_unit_identifier # active_unit_identifier
    /\ \E cell \in Cells : Len(Lookup(cell)) >= 2

\* The identifiers of the relevant units of the cell level that initialize met in the given
\* cell, in the order of the traversal of the global state.
RelevantInCell(extracted_global_state, cell) ==
    LET units == UnitsOnCellLevel(extracted_global_state)
        met == SelectSeq(units, LAMBDA unit : IsRelevantUnit(unit) /\ unit.cell = cell)
    IN  [k \in 1..Len(met) |-> met[k].identifier]

\* C9: after initialize, the occupant list of every cell is the first min(n, capacity)
\* relevant identifiers of the cell level mapped to the cell, in traversal order (all n with
\* unbounded capacity), the surplus list of the cell is the remaining ones in the same order,
\* and no other identifier is stored.
C9_InitializeOrder ==
    call.op = "initialize" =>
        \A cell \in Cells :
            LET met == RelevantInCell(call.extracted_global_state, cell)
                kept == IF maximum_number_occupants <= 0 \/ Len(met) <= maximum_number_occupants
                        THEN Len(met) ELSE maximum_number_occupants
            IN  /\ Lookup(cell) = SubSeq(met, 1, kept)
                /\ DictGet(surplus, cell, <<>>) = SubSeq(met, kept + 1, Len(met))
                /\ DictHasKey(surplus, cell) <=> kept < Len(met)

\* initialize filled a cell, put a further identifier of that cell into surplus and skipped
\* a unit that is not relevant.
C9_Witness ==
    /\ call.op = "initialize"
    /\ \E cell \in Cells : Len(Lookup(cell)) > 0 /\ DictHasKey(surplus, cell)
    /\ \E id \in LeafIdentifiers : id \notin RelevantIdentifiers

\* C10: yield_active_cells yields at most one pair; it yields nothing before the first update;
\* after an update with a relevant unit it yields the cell and the identifier of that unit;
\* an update whose single unit on the cell level is not relevant succeeds, stores the previous
\* active identifier in the index and leaves nothing to yield.
C10_YieldActiveCells ==
    /\ Len(YieldActiveCells) <= 1
    /\ call.op \in {"__init__", "initialize"} => YieldActiveCells = <<>>
    /\ (Usable /\ UpdatedWithOneUnit /\ IsRelevantUnit(NewActiveUnit))
            => YieldActiveCells = << <<NewActiveUnit.cell, NewActiveUnit.identifier>> >>
    /\ (UpdatedWithOneUnit /\ ~IsRelevantUnit(NewActiveUnit))
            => /\ Usable
               /\ YieldActiveCells = <<>>
               /\ active_unit_identifier = NoneIdentifier
               /\ active_cell = NoneCell
               /\ call.previous_active_unit_identifier # NoneIdentifier
                    => Occurrences(StoredIdentifiers, call.previous_active_unit_identifier) = 1

\* An update with a unit that is not relevant returned the previous active identifier.
C10_Witness ==
    /\ Usable /\ UpdatedWithOneUnit
    /\ ~IsRelevantUnit(NewActiveUnit)
    /\ call.previous_active_unit_identifier # NoneIdentifier

\* The identifier is held in the surplus list of some cell.
InSomeSurplusList(id) == \E i \in 1..Len(surplus) : Contains(surplus[i].value, id)

\* C11: yield_surplus is complete and restartable: a call yields every identifier held in a
\* surplus list exactly once and nothing else, a second call with no update in between yields
\* the same sequence, and the call changes nothing in the index.
C11_YieldSurplus ==
    [][call'.op = "yield_surplus" =>
          /\ \A id \in AllIdentifiers :
                Occurrences(call'.result, id) = (IF InSomeSurplusList(id) THEN 1 ELSE 0)
          /\ Len(call'.result) = Cardinality({id \in AllIdentifiers : InSomeSurplusList(id)})
          /\ call.op = "yield_surplus" => call'.result = call.result
          /\ UNCHANGED <<occupants, surplus, active_unit_identifier, active_cell,
                         cell_level, maximum_number_occupants, charge, pc>>]_vars

\* yield_surplus was called twice in a row while two cells hold surplus identifiers.
C11_Witness ==
    /\ call.op = "yield_surplus" /\ call.repeated
    /\ Len(surplus) = 2
    /\ Len(call.result) >= 2

----------------------------------------------------------------------------
(***************************************************************************)
(* Part 2: event handlers                                                  *)
(*   (src/event_handler/leaf_unit_cell_veto_event_handler.py,              *)
(*    src/event_handler/final_time_end_of_run_event_handler.py)            *)
(* An event handler receives branches of the state tree: a root node with  *)
(* the child nodes that take part.  A unit carries an identifier, a        *)
(* position, a velocity and a time stamp (both None for a unit at rest)    *)
(* and a charge dictionary (None for a composite unit).  Times, positions  *)
(* and velocities are integers; None is the empty tuple as a velocity and  *)
(* -1 as a time, the charge None is the empty dictionary, and the node     *)
(* None has a unit with the None identifier.                               *)
(***************************************************************************)

\* Bounds of the handler model.
SystemLength == 4
MaxTimeStamp == 2
MaxEventTimeStep == 2
MaxEndOfRunTime == 2

\* HypercubicSetting(dimension=3).
Dimension == 3

NoneVelocity == <<>>
NoneTime == -1
NoneState == <<>>
NoneCharge == <<>>

Directions == 1..Dimension

Unit(identifier, position, velocity, time_stamp, unit_charges) ==
    [identifier |-> identifier, position |-> position, velocity |-> velocity,
     time_stamp |-> time_stamp, charge |-> unit_charges]

Node(value, children) == [value |-> value, children |-> children]

NoneNode == Node(Unit(NoneIdentifier, <<>>, NoneVelocity, NoneTime, NoneCharge), <<>>)

IsNoneNode(node) == node.value.identifier = NoneIdentifier

\* A velocity along one direction.
AxisVelocity(direction, value) == [d \in Directions |-> IF d = direction THEN value ELSE 0]

\* yield_leaf_nodes(node) of base.node as paths: 0 addresses the node itself, k its k-th child.
yield_leaf_nodes(node) ==
    IF Len(node.children) = 0 THEN <<0>> ELSE [k \in 1..Len(node.children) |-> k]

\* The node a path <<branch index, child index>> addresses in a list of branches.
NodeAt(branches, path) ==
    IF path[2] = 0 THEN branches[path[1]] ELSE branches[path[1]].children[path[2]]

\* Every unit of a branch, the root unit first.
UnitsOfBranch(branch) ==
    <<branch.value>> \o [k \in 1..Len(branch.children) |-> branch.children[k].value]

UnitsOfBranches(branches) ==
    FlattenSeqs([b \in 1..Len(branches) |-> UnitsOfBranch(branches[b])])

IsActiveUnit(unit) == unit.velocity # NoneVelocity

\* Time-slicing of one unit: the position advances along the velocity under periodic
\* boundaries, then the unit carries neither a velocity nor a time stamp; a unit at rest
\* is left alone.
TimeSliceUnit(unit, time) ==
    IF ~IsActiveUnit(unit) THEN unit
    ELSE [unit EXCEPT
            !.position = [d \in Directions |->
                            (unit.position[d] + unit.velocity[d] * (time - unit.time_stamp))
                                % SystemLength],
            !.velocity = NoneVelocity,
            !.time_stamp = NoneTime]

\* Time-slicing fails when the target time precedes the time stamp of a unit.
TimeSliceFails(units, time) ==
    \E k \in 1..Len(units) : IsActiveUnit(units[k]) /\ time < units[k].time_stamp

\* A unit is activated with a velocity and a time stamp.
ActivateUnit(unit, velocity, time_stamp) ==
    [unit EXCEPT !.velocity = velocity, !.time_stamp = time_stamp]

\* Time-slicing of a unit that stays active: it keeps its velocity at the new time stamp.
TimeSliceActiveUnit(unit, time) ==
    IF ~IsActiveUnit(unit) THEN unit
    ELSE ActivateUnit(TimeSliceUnit(unit, time), unit.velocity, time)

\* Time-slicing of every unit of a branch.
TimeSliceBranch(branch, time) ==
    Node(TimeSliceUnit(branch.value, time),
         [k \in 1..Len(branch.children) |->
            Node(TimeSliceUnit(branch.children[k].value, time), <<>>)])

TimeSliceActiveBranch(branch, time) ==
    Node(TimeSliceActiveUnit(branch.value, time),
         [k \in 1..Len(branch.children) |->
            Node(TimeSliceActiveUnit(branch.children[k].value, time), <<>>)])

\* The settings the handler tests run under: leaf units only, or composite objects.
Settings ==
    {[number_of_node_levels |-> 1, number_of_nodes_per_root_node |-> 1,
      number_of_root_nodes |-> NumberOfRootNodes],
     [number_of_node_levels |-> NumberOfNodeLevels,
      number_of_nodes_per_root_node |-> NumberOfNodesPerRootNode,
      number_of_root_nodes |-> NumberOfRootNodes]}

\* The positions drawn for the units of a branch: the root at one of two corners of the
\* system, the k-th child shifted by k along every direction.
CornerPositions == {0, SystemLength - 1}

PositionAt(corner, k) == [d \in Directions |-> (corner + k) % SystemLength]

\* The branch of one leaf unit: the leaf node itself without composite objects, else the
\* root node with the leaf node as its only child.  The composite unit carries the velocity
\* of its center (the leaf velocity times the weight one half of the leaf).
LeafUnitBranch(i, j, corner, velocity, time_stamp, value) ==
    IF setting.number_of_node_levels = 1
    THEN Node(Unit(<<i>>, PositionAt(corner, 0), velocity, time_stamp,
                   [n \in {ChargeName} |-> value]), <<>>)
    ELSE Node(Unit(<<i>>, PositionAt(corner, 0),
                   IF velocity = NoneVelocity THEN NoneVelocity
                   ELSE [d \in Directions |-> velocity[d] \div 2],
                   time_stamp, NoneCharge),
              <<Node(Unit(<<i, j>>, PositionAt(corner, j + 1), velocity, time_stamp,
                          [n \in {ChargeName} |-> value]), <<>>)>>)

\* The branch of a root unit with all its children, all carrying the same velocity.
RootUnitBranch(i, corner, velocity, time_stamp) ==
    Node(Unit(<<i>>, PositionAt(corner, 0), velocity, time_stamp,
              IF setting.number_of_node_levels = 1 THEN [n \in {ChargeName} |-> 1]
              ELSE NoneCharge),
         IF setting.number_of_node_levels = 1 THEN <<>>
         ELSE [k \in 1..setting.number_of_nodes_per_root_node |->
                 Node(Unit(<<i, k - 1>>, PositionAt(corner, k), velocity, time_stamp,
                           [n \in {ChargeName} |-> 1]), <<>>)])

\* The node indices below a root node under the setting of the run.
SettingNodeIndices == 0..(setting.number_of_nodes_per_root_node - 1)

\* The velocities of a leaf unit in motion: one nonzero component (even, so that the
\* velocity of the composite unit is an integer).
LeafVelocities == {AxisVelocity(d, v) : d \in Directions, v \in {-2, 2}}

ForwardVelocities == {AxisVelocity(d, 2) : d \in Directions}

----------------------------------------------------------------------------
\* LeafUnitCellVetoEventHandler

LeafUnitCellVeto == "LeafUnitCellVetoEventHandler"

\* The numbers of charges a potential may expect.
NumberChargeArguments == {1, 2}

\* __init__, lines 68-79: the handler after construction, or the ConfigurationError.
LeafUnitCellVetoEventHandler(name, number_charge_arguments) ==
    [pc |-> IF name # None /\ number_charge_arguments # 2
            THEN "ConfigurationError" ELSE "initialized",
     charge |-> name,
     number_charge_arguments |-> number_charge_arguments,
     state |-> NoneState,
     leaf_cnodes |-> <<>>,
     active_leaf_unit_index |-> 0,
     event_time |-> NoneTime]

\* self._leaf_units: the units of the stored leaf nodes.
LeafUnits(st) == [k \in 1..Len(st.leaf_cnodes) |-> NodeAt(st.state, st.leaf_cnodes[k]).value]

Charges_OnePerUnit(st, unit_one, unit_two) ==
    IF st.charge = None THEN <<1, 1>>
    ELSE <<unit_one.charge[st.charge], unit_two.charge[st.charge]>>

\* self._charges, lines 70-75.
Charges(st, unit_one, unit_two) ==
    IF st.charge = None THEN [k \in 1..st.number_charge_arguments |-> 1]
    ELSE <<unit_one.charge[st.charge], unit_two.charge[st.charge]>>

\* send_event_time of the base class CellVetoEventHandler: the in-state is stored with its
\* leaf nodes, the active leaf unit is the first one, and the stored branch is time-sliced
\* to the sampled candidate time, where it stays active.
CellVetoSendEventTime(st, in_state, event_time) ==
    [st EXCEPT
        !.state = [b \in 1..Len(in_state) |-> TimeSliceActiveBranch(in_state[b], event_time)],
        !.leaf_cnodes = FlattenSeqs([b \in 1..Len(in_state) |->
                            LET leaves == yield_leaf_nodes(in_state[b])
                            IN  [k \in 1..Len(leaves) |-> <<b, leaves[k]>>]]),
        !.active_leaf_unit_index = 0,
        !.event_time = event_time]

\* A unit of the stored state replaced by another value.
WithUnitAt(branches, path, unit) ==
    IF path[2] = 0 THEN [branches EXCEPT ![path[1]].value = unit]
    ELSE [branches EXCEPT ![path[1]].children[path[2]].value = unit]

\* The velocity and the time stamp of the units at two paths are exchanged.
ExchangeVelocity(branches, path_one, path_two) ==
    LET unit_one == NodeAt(branches, path_one).value
        unit_two == NodeAt(branches, path_two).value
    IN  WithUnitAt(WithUnitAt(branches, path_one,
                              ActivateUnit(unit_one, unit_two.velocity, unit_two.time_stamp)),
                   path_two, ActivateUnit(unit_two, unit_one.velocity, unit_one.time_stamp))

\* _calculate_out_state_of_two_leaf_unit_bounding_potential of the base class: the event is
\* accepted, the two branches are time-sliced to the candidate time, and the velocities of
\* the two leaf units are exchanged, as are those of their composite units, which keeps
\* each branch consistent.
CalculateOutStateOfTwoLeafUnitBoundingPotential(st, charges) ==
    LET active == st.leaf_cnodes[st.active_leaf_unit_index + 1]
        target == st.leaf_cnodes[(1 - st.active_leaf_unit_index) + 1]
        sliced == [b \in 1..Len(st.state) |-> TimeSliceActiveBranch(st.state[b], st.event_time)]
        leaves == ExchangeVelocity(sliced, active, target)
    IN  [st EXCEPT !.state =
            IF active[2] = 0 THEN leaves
            ELSE ExchangeVelocity(leaves, <<active[1], 0>>, <<target[1], 0>>)]

\* The result of a call: the handler afterwards, the exception raised, the value returned.
Returned(st, out_state) == [handler |-> st, raised |-> None, out_state |-> out_state]

Raised(st, exception) == [handler |-> st, raised |-> exception, out_state |-> NoneState]

\* The target branch appended to the stored state with its leaf nodes, lines 126-129.
AppendTarget(st, target_unit_root_cnode) ==
    LET leaves == yield_leaf_nodes(target_unit_root_cnode)
    IN  [st EXCEPT
            !.state = Append(@, target_unit_root_cnode),
            !.leaf_cnodes = @ \o [k \in 1..Len(leaves) |-> <<Len(st.state) + 1, leaves[k]>>]]

CellVetoSendOutState_ResetLeafUnits(st, target_unit_root_cnode) ==
    IF IsNoneNode(target_unit_root_cnode) THEN Returned(st, st.state)
    ELSE IF st.state = NoneState THEN Raised(st, "AttributeError")
    ELSE LET reset == [st EXCEPT !.state = <<st.state[1]>>, !.leaf_cnodes = <<st.leaf_cnodes[1]>>]
             appended == AppendTarget(reset, target_unit_root_cnode)
         IN  IF Len(appended.leaf_cnodes) # 2 THEN Raised(appended, "AssertionError")
             ELSE LET units == LeafUnits(appended)
                      calculated == CalculateOutStateOfTwoLeafUnitBoundingPotential(
                                        appended, Charges(appended, units[1], units[2]))
                  IN  Returned(calculated, calculated.state)

CellVetoSendOutState_FictitiousDeactivates(st, target_unit_root_cnode) ==
    IF IsNoneNode(target_unit_root_cnode)
    THEN LET sliced == [st EXCEPT !.state =
                            [b \in 1..Len(st.state) |-> TimeSliceBranch(st.state[b], st.event_time)]]
         IN  Returned(sliced, sliced.state)
    ELSE IF st.state = NoneState THEN Raised(st, "AttributeError")
    ELSE LET appended == AppendTarget(st, target_unit_root_cnode)
         IN  IF Len(appended.leaf_cnodes) # 2 THEN Raised(appended, "AssertionError")
             ELSE LET units == LeafUnits(appended)
                      calculated == CalculateOutStateOfTwoLeafUnitBoundingPotential(
                                        appended, Charges(appended, units[1], units[2]))
                  IN  Returned(calculated, calculated.state)

CellVetoSendOutState_TargetFirst(st, target_unit_root_cnode) ==
    IF IsNoneNode(target_unit_root_cnode) THEN Returned(st, st.state)
    ELSE IF st.state = NoneState THEN Raised(st, "AttributeError")
    ELSE LET appended == AppendTarget(st, target_unit_root_cnode)
         IN  IF Len(appended.leaf_cnodes) # 2 THEN Raised(appended, "AssertionError")
             ELSE LET units == LeafUnits(appended)
                      calculated == CalculateOutStateOfTwoLeafUnitBoundingPotential(
                                        appended, Charges(appended, units[1], units[2]))
                  IN  Returned(calculated, <<calculated.state[2], calculated.state[1]>>)

CellVetoSendOutState_AtLeastTwo(st, target_unit_root_cnode) ==
    IF IsNoneNode(target_unit_root_cnode) THEN Returned(st, st.state)
    ELSE IF st.state = NoneState THEN Raised(st, "AttributeError")
    ELSE LET appended == AppendTarget(st, target_unit_root_cnode)
         IN  IF Len(appended.leaf_cnodes) < 2 THEN Raised(appended, "AssertionError")
             ELSE LET units == LeafUnits(appended)
                      calculated == CalculateOutStateOfTwoLeafUnitBoundingPotential(
                                        appended, Charges(appended, units[1], units[2]))
                  IN  Returned(calculated, calculated.state)

\* send_out_state, lines 123-136.  Without a stored state (no send_event_time so far) the
\* append of line 126 has no list to act on.
CellVetoSendOutState(st, target_unit_root_cnode) ==
    IF IsNoneNode(target_unit_root_cnode) THEN Returned(st, st.state)
    ELSE IF st.state = NoneState THEN Raised(st, "AttributeError")
    ELSE LET appended == AppendTarget(st, target_unit_root_cnode)
         IN  IF Len(appended.leaf_cnodes) # 2 THEN Raised(appended, "AssertionError")
             ELSE LET units == LeafUnits(appended)
                      calculated == CalculateOutStateOfTwoLeafUnitBoundingPotential(
                                        appended, Charges(appended, units[1], units[2]))
                  IN  Returned(calculated, calculated.state)

\* The in-states of send_event_time: the branch of one leaf unit in motion.
ActiveLeafUnitBranches ==
    {LeafUnitBranch(i, j, corner, velocity, time_stamp, 1) :
        i \in RootIndices, j \in SettingNodeIndices, corner \in CornerPositions,
        velocity \in ForwardVelocities, time_stamp \in {0, MaxTimeStamp}}

\* The branches the activator finds in a target cell: the branch of one leaf unit at rest
\* and, with composite objects, a whole composite object at rest.
TargetBranches ==
    {LeafUnitBranch(i, j, 0, NoneVelocity, NoneTime, value) :
        i \in RootIndices, j \in SettingNodeIndices,
        value \in IF cell_veto.charge = None THEN {1} ELSE ChargeValues}
    \cup {RootUnitBranch(i, 0, NoneVelocity, NoneTime) : i \in RootIndices}

LeafUnitCellVetoSendEventTime ==
    /\ cell_veto.pc = "initialized"
    /\ \E branch \in ActiveLeafUnitBranches, step \in 1..MaxEventTimeStep :
        \E event_time \in {branch.value.time_stamp + step} :
            /\ cell_veto' = CellVetoSendEventTime(cell_veto, <<branch>>, event_time)
            /\ handler_call' = [handler |-> LeafUnitCellVeto, op |-> "send_event_time",
                                argument |-> <<branch>>, raised |-> None,
                                result |-> event_time, out_state |-> NoneState,
                                confirmations |-> 0]
    /\ UNCHANGED <<setting, end_of_run, end_of_chain, scheduler>>
    /\ UNCHANGED occupancy_vars

\* The charges line 131 hands to the potential when the call gets that far.
ChargesOfCall(result, target_unit_root_cnode) ==
    IF result.raised = None /\ ~IsNoneNode(target_unit_root_cnode)
    THEN LET units == LeafUnits(result.handler)
         IN  Charges(result.handler, units[1], units[2])
    ELSE <<>>

LeafUnitCellVetoSendOutState ==
    /\ cell_veto.pc = "initialized"
    /\ \E target_unit_root_cnode \in {NoneNode} \cup TargetBranches :
        \E result \in {CellVetoSendOutState(cell_veto, target_unit_root_cnode)} :
            /\ cell_veto' = [result.handler EXCEPT
                                !.pc = IF result.raised # None THEN result.raised ELSE @]
            /\ handler_call' = [handler |-> LeafUnitCellVeto, op |-> "send_out_state",
                                argument |-> <<target_unit_root_cnode>>,
                                raised |-> result.raised,
                                result |-> NoneTime, out_state |-> result.out_state,
                                charges |-> ChargesOfCall(result, target_unit_root_cnode),
                                confirmations |->
                                    IF IsNoneNode(target_unit_root_cnode)
                                    THEN handler_call.confirmations
                                    ELSE handler_call.confirmations + 1]
    /\ UNCHANGED <<setting, end_of_run, end_of_chain, scheduler>>
    /\ UNCHANGED occupancy_vars

----------------------------------------------------------------------------
\* FinalTimeEndOfRunEventHandler

FinalTimeEndOfRun == "FinalTimeEndOfRunEventHandler"

FinalTimeEndOfRunEventHandler_ZeroAccepted(end_of_run_time) ==
    [pc |-> IF ~(end_of_run_time >= 0) THEN "ConfigurationError" ELSE "initialized",
     end_of_run_time |-> end_of_run_time,
     event_time |-> IF ~(end_of_run_time >= 0) THEN NoneTime ELSE end_of_run_time,
     state |-> NoneState]

\* __init__, lines 63-66: the handler after construction, or the ConfigurationError.  The
\* argument of the constructor is kept next to the fields of the handler.
FinalTimeEndOfRunEventHandler(end_of_run_time) ==
    [pc |-> IF ~(end_of_run_time > 0) THEN "ConfigurationError" ELSE "initialized",
     end_of_run_time |-> end_of_run_time,
     event_time |-> IF ~(end_of_run_time > 0) THEN NoneTime ELSE end_of_run_time,
     state |-> NoneState]

EndOfRunSendEventTime_AfterOutState(st) ==
    IF st.state = NoneState THEN st.event_time ELSE 0

EndOfRunSendEventTime_Later(st) == st.event_time + 1

\* send_event_time, line 77.
EndOfRunSendEventTime(st) == st.event_time

EndOfRunSendOutState_FirstBranch(st, cnodes_with_active_units) ==
    LET stored == [st EXCEPT !.state = <<cnodes_with_active_units[1]>>]
    IN  IF TimeSliceFails(UnitsOfBranches(stored.state), stored.event_time)
        THEN Raised(stored, "AssertionError")
        ELSE LET sliced == [stored EXCEPT !.state =
                                [b \in 1..Len(stored.state) |->
                                    TimeSliceBranch(stored.state[b], stored.event_time)]]
             IN  Returned(sliced, sliced.state)

EndOfRunSendOutState_AtRestFails(st, cnodes_with_active_units) ==
    LET stored == [st EXCEPT !.state = cnodes_with_active_units]
    IN  IF \/ TimeSliceFails(UnitsOfBranches(stored.state), stored.event_time)
           \/ \E k \in 1..Len(UnitsOfBranches(stored.state)) :
                    ~IsActiveUnit(UnitsOfBranches(stored.state)[k])
        THEN Raised(stored, "AssertionError")
        ELSE LET sliced == [stored EXCEPT !.state =
                                [b \in 1..Len(stored.state) |->
                                    TimeSliceBranch(stored.state[b], stored.event_time)]]
             IN  Returned(sliced, sliced.state)

EndOfRunSendOutState_BackwardsInTime(st, cnodes_with_active_units) ==
    LET stored == [st EXCEPT !.state = cnodes_with_active_units]
        sliced == [stored EXCEPT !.state =
                        [b \in 1..Len(stored.state) |->
                            TimeSliceBranch(stored.state[b], stored.event_time)]]
    IN  Returned(sliced, sliced.state)

\* send_out_state, lines 90-92: the in-state is stored and every unit of it is time-sliced
\* to the event time, which fails for a time stamp after the event time.
EndOfRunSendOutState(st, cnodes_with_active_units) ==
    LET stored == [st EXCEPT !.state = cnodes_with_active_units]
    IN  IF TimeSliceFails(UnitsOfBranches(stored.state), stored.event_time)
        THEN Raised(stored, "AssertionError")
        ELSE LET sliced == [stored EXCEPT !.state =
                                [b \in 1..Len(stored.state) |->
                                    TimeSliceBranch(stored.state[b], stored.event_time)]]
             IN  Returned(sliced, sliced.state)

\* The branches of the independent active units: a leaf unit or a whole root unit in motion.
ActiveBranchShapes == {<<"leaf", j>> : j \in SettingNodeIndices} \cup {<<"root", 0>>}

ShapedBranch(i, shape, corner, velocity, time_stamp) ==
    IF shape[1] = "leaf" THEN LeafUnitBranch(i, shape[2], corner, velocity, time_stamp, 1)
    ELSE RootUnitBranch(i, corner, velocity, time_stamp)

\* The in-states of the end-of-run handler: one branch, or two branches of different root
\* nodes in either order which share the velocity and the time stamp.
CnodesWithActiveUnits ==
    {<<ShapedBranch(i, shape, corner, velocity, time_stamp)>> :
        i \in RootIndices, shape \in ActiveBranchShapes, corner \in CornerPositions,
        velocity \in ForwardVelocities, time_stamp \in 0..MaxTimeStamp}
    \cup {<<ShapedBranch(roots[1], shape_one, 0, velocity, time_stamp),
             ShapedBranch(roots[2], shape_two, 0, velocity, time_stamp)>> :
                roots \in {pair \in RootIndices \X RootIndices : pair[1] # pair[2]},
                shape_one \in ActiveBranchShapes, shape_two \in ActiveBranchShapes,
                velocity \in ForwardVelocities, time_stamp \in 0..MaxTimeStamp}

FinalTimeEndOfRunSendEventTime ==
    /\ end_of_run.pc = "initialized"
    /\ handler_call' = [handler |-> FinalTimeEndOfRun, op |-> "send_event_time",
                        argument |-> <<>>, raised |-> None,
                        result |-> EndOfRunSendEventTime(end_of_run), out_state |-> NoneState,
                        confirmations |-> 0]
    /\ UNCHANGED <<setting, cell_veto, end_of_run, end_of_chain, scheduler>>
    /\ UNCHANGED occupancy_vars

\* The in-states of send_out_state: branches of active units, or the out-state of the last
\* send_out_state once more.
EndOfRunInStates ==
    CnodesWithActiveUnits
    \cup IF handler_call.op = "send_out_state" /\ handler_call.raised = None
         THEN {handler_call.out_state}
         ELSE {}

FinalTimeEndOfRunSendOutState ==
    /\ end_of_run.pc = "initialized"
    /\ \E cnodes_with_active_units \in EndOfRunInStates :
        \E result \in {EndOfRunSendOutState(end_of_run, cnodes_with_active_units)} :
            /\ end_of_run' = [result.handler EXCEPT
                                !.pc = IF result.raised # None THEN result.raised ELSE @]
            /\ handler_call' = [handler |-> FinalTimeEndOfRun, op |-> "send_out_state",
                                argument |-> <<cnodes_with_active_units>>,
                                raised |-> result.raised,
                                result |-> NoneTime, out_state |-> result.out_state,
                                confirmations |-> 0]
    /\ UNCHANGED <<setting, cell_veto, end_of_chain, scheduler>>
    /\ UNCHANGED occupancy_vars

----------------------------------------------------------------------------
\* A run of one event handler, called by the mediator in any order.  The field
\* confirmations of the call record counts the calls of send_out_state with a target
\* branch since the last send_event_time.

\* No cell-occupancy system takes part in the run.
NoOccupancy ==
    /\ cell_level = 1
    /\ maximum_number_occupants = 0
    /\ charge = None
    /\ occupants = [cell \in Cells |-> <<>>]
    /\ surplus = <<>>
    /\ active_unit_identifier = NoneIdentifier
    /\ active_cell = NoneCell
    /\ unit_charge = <<>>
    /\ pc = "None"
    /\ call = [op |-> "None"]

NoHandlerCall ==
    [handler |-> "None", op |-> "None", argument |-> <<>>, raised |-> None,
     result |-> NoneTime, out_state |-> NoneState, confirmations |-> 0]

InitEventHandlers ==
    /\ NoOccupancy
    /\ setting \in Settings
    /\ end_of_chain = NoHandler
    /\ handler_call = NoHandlerCall
    /\ scheduler = NoScheduler
    /\ \/ /\ \E name \in {None, ChargeName}, number \in NumberChargeArguments :
                cell_veto = LeafUnitCellVetoEventHandler(name, number)
          /\ end_of_run = NoHandler
       \/ /\ \E end_of_run_time \in (-1)..MaxEndOfRunTime :
                end_of_run = FinalTimeEndOfRunEventHandler(end_of_run_time)
          /\ cell_veto = NoHandler

NextEventHandlers ==
    \/ LeafUnitCellVetoSendEventTime
    \/ LeafUnitCellVetoSendOutState
    \/ FinalTimeEndOfRunSendEventTime
    \/ FinalTimeEndOfRunSendOutState

SpecEventHandlers == InitEventHandlers /\ [][NextEventHandlers]_vars

----------------------------------------------------------------------------
(***************************************************************************)
(* SingleIndependentActivePeriodicDirectionEndOfChainEventHandler, as its  *)
(* unit tests fix it                                                       *)
(*   (unittests/test_event_handler/                                        *)
(*    test_single_independent_active_periodic_direction_end_of_chain_      *)
(*    event_handler.py).                                                   *)
(***************************************************************************)

\* Bounds of the end-of-chain model: the largest chain time and the number of rounds.
MaxChainTime == 2
MaxRounds == 3

EndOfChain == "SingleIndependentActivePeriodicDirectionEndOfChainEventHandler"

\* The numbers of arguments of the two methods (lines 65-69).
number_send_event_time_arguments == 1
number_send_out_state_arguments == 2

EndOfChainEventHandler_ZeroAccepted(chain_time) ==
    [pc |-> IF ~(chain_time >= 0) THEN "ConfigurationError" ELSE "initialized",
     chain_time |-> chain_time,
     event_time |-> 0]

\* The constructor (lines 50, 974-980): the first candidate time is one chain time after 0.
EndOfChainEventHandler(chain_time) ==
    [pc |-> IF ~(chain_time > 0) THEN "ConfigurationError" ELSE "initialized",
     chain_time |-> chain_time,
     event_time |-> 0]

\* The number of nonzero components of a velocity.
NumberOfVelocityComponents(velocity) == Cardinality({d \in Directions : velocity[d] # 0})

NextDirection_Previous(velocity) == [d \in Directions |-> velocity[(d % Dimension) + 1]]

\* The velocity moved to the next direction, cyclically (lines 77 and 108, 116 and 140,
\* 151 and 171).
NextDirection(velocity) == [d \in Directions |-> velocity[((d + Dimension - 2) % Dimension) + 1]]

\* The unit a branch of active units is about: the leaf unit of a branch with one child
\* (or none), the root unit of a branch with all its children.
ActiveUnitOf(branch) ==
    IF Len(branch.children) = 1 THEN branch.children[1].value ELSE branch.value

\* The identifier nominated with the drawn integers: one of a root node, and a second
\* component when the active unit is the only child sent with its root node (lines 186-192).
NewActiveIdentifier(branch, root_index, node_index) ==
    IF Len(branch.children) = 1 THEN <<root_index, node_index>> ELSE <<root_index>>

EndOfChainSendEventTime_FromTimeStamp(st, in_state, root_index, node_index) ==
    IF Len(in_state) # 1 THEN Raised(st, "AssertionError")
    ELSE IF ~IsActiveUnit(in_state[1].value) THEN Raised(st, "AssertionError")
    ELSE IF ~(st.event_time <= in_state[1].value.time_stamp
              /\ in_state[1].value.time_stamp <= st.event_time + st.chain_time)
    THEN Raised(st, "AssertionError")
    ELSE [handler |-> [st EXCEPT !.event_time = in_state[1].value.time_stamp + st.chain_time],
          raised |-> None,
          out_state |-> <<<<NewActiveIdentifier(in_state[1], root_index, node_index)>>>>]

EndOfChainSendEventTime_NoAdvance(st, in_state, root_index, node_index) ==
    IF Len(in_state) # 1 THEN Raised(st, "AssertionError")
    ELSE IF ~IsActiveUnit(in_state[1].value) THEN Raised(st, "AssertionError")
    ELSE IF ~(st.event_time <= in_state[1].value.time_stamp
              /\ in_state[1].value.time_stamp <= st.event_time + st.chain_time)
    THEN Raised(st, "AssertionError")
    ELSE [handler |-> [st EXCEPT !.event_time = st.chain_time],
          raised |-> None,
          out_state |-> <<<<NewActiveIdentifier(in_state[1], root_index, node_index)>>>>]

EndOfChainSendEventTime_ExclusiveWindow(st, in_state, root_index, node_index) ==
    IF Len(in_state) # 1 THEN Raised(st, "AssertionError")
    ELSE IF ~IsActiveUnit(in_state[1].value) THEN Raised(st, "AssertionError")
    ELSE IF ~(st.event_time <= in_state[1].value.time_stamp
              /\ in_state[1].value.time_stamp < st.event_time + st.chain_time)
    THEN Raised(st, "AssertionError")
    ELSE [handler |-> [st EXCEPT !.event_time = st.event_time + st.chain_time],
          raised |-> None,
          out_state |-> <<<<NewActiveIdentifier(in_state[1], root_index, node_index)>>>>]

EndOfChainSendEventTime_AlwaysTwoComponents(st, in_state, root_index, node_index) ==
    IF Len(in_state) # 1 THEN Raised(st, "AssertionError")
    ELSE IF ~IsActiveUnit(in_state[1].value) THEN Raised(st, "AssertionError")
    ELSE IF ~(st.event_time <= in_state[1].value.time_stamp
              /\ in_state[1].value.time_stamp <= st.event_time + st.chain_time)
    THEN Raised(st, "AssertionError")
    ELSE [handler |-> [st EXCEPT !.event_time = st.event_time + st.chain_time],
          raised |-> None,
          out_state |-> <<<<<<root_index, node_index>>>>>>]

EndOfChainSendEventTime_OneVelocityComponent(st, in_state, root_index, node_index) ==
    IF Len(in_state) # 1 THEN Raised(st, "AssertionError")
    ELSE IF ~IsActiveUnit(in_state[1].value) THEN Raised(st, "AssertionError")
    ELSE IF NumberOfVelocityComponents(in_state[1].value.velocity) # 1
    THEN Raised(st, "AssertionError")
    ELSE IF ~(st.event_time <= in_state[1].value.time_stamp
              /\ in_state[1].value.time_stamp <= st.event_time + st.chain_time)
    THEN Raised(st, "AssertionError")
    ELSE [handler |-> [st EXCEPT !.event_time = st.event_time + st.chain_time],
          raised |-> None,
          out_state |-> <<<<NewActiveIdentifier(in_state[1], root_index, node_index)>>>>]

\* send_event_time as the tests fix it: one branch (lines 720-757) with an active unit
\* (lines 900-915) whose time stamp lies between the last candidate time and the next one
\* (lines 576-718); the candidate time advances by the chain time (lines 79-80, 115-116,
\* 144-145) and a new active identifier is drawn (lines 81-85, 186-192, 357-363).  The
\* handler afterwards holds the candidate time; the value returned next to it is the nested
\* list of the new active identifier.
EndOfChainSendEventTime(st, in_state, root_index, node_index) ==
    IF Len(in_state) # 1 THEN Raised(st, "AssertionError")
    ELSE IF ~IsActiveUnit(in_state[1].value) THEN Raised(st, "AssertionError")
    ELSE IF ~(st.event_time <= in_state[1].value.time_stamp
              /\ in_state[1].value.time_stamp <= st.event_time + st.chain_time)
    THEN Raised(st, "AssertionError")
    ELSE [handler |-> [st EXCEPT !.event_time = st.event_time + st.chain_time],
          raised |-> None,
          out_state |-> <<<<NewActiveIdentifier(in_state[1], root_index, node_index)>>>>]

\* The unit at a place of a branch: 0 is the root unit, k the unit of the k-th child.
UnitAtPlace(branch, place) ==
    IF place = 0 THEN branch.value ELSE branch.children[place].value

\* A branch rebuilt from a function of its places.
BranchOfUnits(branch, unit_at) ==
    Node(unit_at[0], [k \in 1..Len(branch.children) |-> Node(unit_at[k], <<>>)])

\* The out-state of two branches (lines 87-110, 194-237, 253-298, 365-432): every unit is
\* time-sliced to the candidate time; a unit of the old branch that is not part of the new
\* branch comes to rest, and the unit at the same place of the new branch takes its velocity
\* in the next direction at the candidate time; a unit that is part of both branches (the
\* root unit, when the new leaf unit belongs to the same root node) stays in motion in both.
TwoBranchOutState(active, new, time) ==
    LET places == 0..Len(active.children)
        shared == {p \in places :
                    UnitAtPlace(active, p).identifier = UnitAtPlace(new, p).identifier}
        old_unit == [p \in places |->
                        IF p \in shared
                        THEN ActivateUnit(TimeSliceUnit(UnitAtPlace(active, p), time),
                                          NextDirection(UnitAtPlace(active, p).velocity), time)
                        ELSE TimeSliceUnit(UnitAtPlace(active, p), time)]
        new_unit == [p \in places |->
                        IF p \in shared
                        THEN ActivateUnit(TimeSliceUnit(UnitAtPlace(new, p), time),
                                          NextDirection(UnitAtPlace(active, p).velocity), time)
                        ELSE ActivateUnit(TimeSliceUnit(UnitAtPlace(new, p), time),
                                          NextDirection(UnitAtPlace(active, p).velocity), time)]
    IN  <<BranchOfUnits(active, old_unit), BranchOfUnits(new, new_unit)>>

\* The out-state of one branch whose unit stays active (lines 159-174, 324-343, 533-574).
OneBranchOutState(active, time) ==
    LET places == 0..Len(active.children)
        unit == [p \in places |->
                    ActivateUnit(TimeSliceUnit(UnitAtPlace(active, p), time),
                                 NextDirection(UnitAtPlace(active, p).velocity), time)]
    IN  <<BranchOfUnits(active, unit)>>

EndOfChainSendOutState_AlwaysTwoBranches(st, cnodes_with_active_units, cnodes_with_new_active_units) ==
    IF Len(cnodes_with_active_units) # 1 \/ Len(cnodes_with_new_active_units) # 1
    THEN Raised(st, "AssertionError")
    ELSE LET active == cnodes_with_active_units[1]
             new == cnodes_with_new_active_units[1]
         IN  IF ~IsActiveUnit(active.value) THEN Raised(st, "AssertionError")
             ELSE IF NumberOfVelocityComponents(active.value.velocity) # 1
             THEN Raised(st, "AssertionError")
             ELSE Returned(st, TwoBranchOutState(active, new, st.event_time))

EndOfChainSendOutState_KeepOldActive(st, cnodes_with_active_units, cnodes_with_new_active_units) ==
    IF Len(cnodes_with_active_units) # 1 \/ Len(cnodes_with_new_active_units) # 1
    THEN Raised(st, "AssertionError")
    ELSE LET active == cnodes_with_active_units[1]
             new == cnodes_with_new_active_units[1]
         IN  IF ~IsActiveUnit(active.value) THEN Raised(st, "AssertionError")
             ELSE IF NumberOfVelocityComponents(active.value.velocity) # 1
             THEN Raised(st, "AssertionError")
             ELSE IF ActiveUnitOf(active).identifier = ActiveUnitOf(new).identifier
             THEN Returned(st, OneBranchOutState(active, st.event_time))
             ELSE Returned(st, <<OneBranchOutState(active, st.event_time)[1],
                                 TwoBranchOutState(active, new, st.event_time)[2]>>)

EndOfChainSendOutState_FirstBranches(st, cnodes_with_active_units, cnodes_with_new_active_units) ==
    LET active == cnodes_with_active_units[1]
        new == cnodes_with_new_active_units[1]
    IN  IF ~IsActiveUnit(active.value) THEN Raised(st, "AssertionError")
        ELSE IF NumberOfVelocityComponents(active.value.velocity) # 1
        THEN Raised(st, "AssertionError")
        ELSE IF ActiveUnitOf(active).identifier = ActiveUnitOf(new).identifier
        THEN Returned(st, OneBranchOutState(active, st.event_time))
        ELSE Returned(st, TwoBranchOutState(active, new, st.event_time))

EndOfChainSendOutState_AnyVelocity(st, cnodes_with_active_units, cnodes_with_new_active_units) ==
    IF Len(cnodes_with_active_units) # 1 \/ Len(cnodes_with_new_active_units) # 1
    THEN Raised(st, "AssertionError")
    ELSE LET active == cnodes_with_active_units[1]
             new == cnodes_with_new_active_units[1]
         IN  IF ~IsActiveUnit(active.value) THEN Raised(st, "AssertionError")
             ELSE IF ActiveUnitOf(active).identifier = ActiveUnitOf(new).identifier
             THEN Returned(st, OneBranchOutState(active, st.event_time))
             ELSE Returned(st, TwoBranchOutState(active, new, st.event_time))

EndOfChainSendOutState_InactiveReturned(st, cnodes_with_active_units, cnodes_with_new_active_units) ==
    IF Len(cnodes_with_active_units) # 1 \/ Len(cnodes_with_new_active_units) # 1
    THEN Raised(st, "AssertionError")
    ELSE LET active == cnodes_with_active_units[1]
             new == cnodes_with_new_active_units[1]
         IN  IF ~IsActiveUnit(active.value) THEN Returned(st, <<active>>)
             ELSE IF NumberOfVelocityComponents(active.value.velocity) # 1
             THEN Raised(st, "AssertionError")
             ELSE IF ActiveUnitOf(active).identifier = ActiveUnitOf(new).identifier
             THEN Returned(st, OneBranchOutState(active, st.event_time))
             ELSE Returned(st, TwoBranchOutState(active, new, st.event_time))

\* send_out_state as the tests fix it: one branch in each argument (lines 759-846), the
\* first one active (lines 917-972) with one velocity component (lines 848-898).
EndOfChainSendOutState(st, cnodes_with_active_units, cnodes_with_new_active_units) ==
    IF Len(cnodes_with_active_units) # 1 \/ Len(cnodes_with_new_active_units) # 1
    THEN Raised(st, "AssertionError")
    ELSE LET active == cnodes_with_active_units[1]
             new == cnodes_with_new_active_units[1]
         IN  IF ~IsActiveUnit(active.value) THEN Raised(st, "AssertionError")
             ELSE IF NumberOfVelocityComponents(active.value.velocity) # 1
             THEN Raised(st, "AssertionError")
             ELSE IF ActiveUnitOf(active).identifier = ActiveUnitOf(new).identifier
             THEN Returned(st, OneBranchOutState(active, st.event_time))
             ELSE Returned(st, TwoBranchOutState(active, new, st.event_time))

\* The velocities of the active unit in the calls of the end-of-chain handler: one component
\* along each direction, and one of negative sign.
EndOfChainVelocities == ForwardVelocities \cup {AxisVelocity(Dimension, -2)}

\* A velocity with two nonzero components (lines 851-852).
TwoComponentVelocity == [d \in Directions |-> IF d <= 2 THEN 2 ELSE 0]

\* A branch at rest (lines 89, 194-199, 900-905).
BranchAtRest(i, shape) == ShapedBranch(i, shape, 0, NoneVelocity, NoneTime)

\* The branch of another leaf unit of the root node of an active leaf unit: the root unit
\* is in motion, the leaf unit at rest (lines 259-264).
SameRootBranch(active, j) ==
    Node(active.value,
         <<Node(Unit(active.value.identifier \o <<j>>, PositionAt(0, j + 1),
                     NoneVelocity, NoneTime, [n \in {ChargeName} |-> 1]), <<>>)>>)

\* The time stamps around the window of send_event_time.
WindowTimeStamps(st) ==
    {time \in (st.event_time - 1)..(st.event_time + st.chain_time + 1) : time >= 0}

\* The in-states of send_event_time: one branch in motion or at rest, or two branches.
EndOfChainInStates(st) ==
    {<<ShapedBranch(i, shape, 0, velocity, time_stamp)>> :
        i \in RootIndices, shape \in ActiveBranchShapes,
        velocity \in {AxisVelocity(1, 2), TwoComponentVelocity},
        time_stamp \in WindowTimeStamps(st)}
    \cup {<<BranchAtRest(i, shape)>> : i \in RootIndices, shape \in ActiveBranchShapes}
    \cup {<<ShapedBranch(0, shape, 0, AxisVelocity(1, 2), st.event_time),
             ShapedBranch(1, shape, 0, AxisVelocity(1, 2), st.event_time)>> :
                shape \in ActiveBranchShapes}

\* The branches of the active unit in send_out_state, stamped no later than the candidate
\* time (lines 87-88, 254-257, 304-307).
EndOfChainActiveBranches(st) ==
    {ShapedBranch(i, shape, SystemLength - 1, velocity, time_stamp) :
        i \in RootIndices, shape \in ActiveBranchShapes,
        velocity \in EndOfChainVelocities \cup {TwoComponentVelocity},
        time_stamp \in {time \in (st.event_time - 2)..st.event_time : time >= 0}}
    \cup {BranchAtRest(i, shape) : i \in RootIndices, shape \in ActiveBranchShapes}

\* The branches of the new active unit next to the branch of the active unit: the same
\* branch, a branch at rest of the same shape, or the branch of another leaf unit of the
\* same root node.
EndOfChainNewBranches(active) ==
    {active}
    \cup {BranchAtRest(i, shape) :
            i \in RootIndices \ {active.value.identifier[1]},
            shape \in {other \in ActiveBranchShapes :
                        (other[1] = "root") = (Len(active.children) # 1)}}
    \cup IF Len(active.children) # 1 THEN {}
         ELSE {SameRootBranch(active, j) :
                j \in SettingNodeIndices \ {active.children[1].value.identifier[2]}}

\* The arguments of send_out_state: one branch each, two branches in one of them or in
\* both (lines 759-846), or the branch at rest and the active branch swapped (lines 906-915).
EndOfChainOutStateArguments(st) ==
    UNION {{<<<<active>>, <<new>>>> : new \in EndOfChainNewBranches(active)} :
            active \in EndOfChainActiveBranches(st)}
    \cup {<<<<ShapedBranch(0, shape, 0, AxisVelocity(1, 2), st.event_time),
               ShapedBranch(1, shape, 0, AxisVelocity(1, 2), st.event_time)>>,
             <<BranchAtRest(1, shape)>>>> : shape \in ActiveBranchShapes}
    \cup {<<<<ShapedBranch(0, shape, 0, AxisVelocity(1, 2), st.event_time)>>,
             <<BranchAtRest(0, shape), BranchAtRest(1, shape)>>>> :
                shape \in ActiveBranchShapes}
    \cup {<<<<ShapedBranch(0, shape, 0, AxisVelocity(1, 2), st.event_time),
               ShapedBranch(1, shape, 0, AxisVelocity(1, 2), st.event_time)>>,
             <<BranchAtRest(0, shape), BranchAtRest(1, shape)>>>> :
                shape \in ActiveBranchShapes}
    \cup {<<<<BranchAtRest(1, shape)>>,
             <<ShapedBranch(0, shape, 0, AxisVelocity(1, 2), st.event_time)>>>> :
                shape \in ActiveBranchShapes}

\* A call of send_event_time starts a round; the drawn integers are those of
\* random.randint(0, number_of_root_nodes - 1) and
\* random.randint(0, number_of_nodes_per_root_node - 1) (lines 81-85, 186-192).
EndOfChainSendEventTimeCall ==
    /\ end_of_chain.pc = "initialized"
    /\ handler_call.op # "send_event_time"
    /\ end_of_chain.event_time < MaxRounds * end_of_chain.chain_time
    /\ \E in_state \in EndOfChainInStates(end_of_chain),
          root_index \in 0..(setting.number_of_root_nodes - 1),
          node_index \in 0..(setting.number_of_nodes_per_root_node - 1) :
        \E result \in {EndOfChainSendEventTime(end_of_chain, in_state, root_index, node_index)} :
            /\ end_of_chain' = [result.handler EXCEPT
                                    !.pc = IF result.raised # None THEN result.raised ELSE @]
            /\ handler_call' = [handler |-> EndOfChain, op |-> "send_event_time",
                                argument |-> <<in_state>>,
                                raised |-> result.raised,
                                result |-> IF result.raised # None THEN NoneTime
                                           ELSE result.handler.event_time,
                                out_state |-> NoneState,
                                confirmations |-> 0,
                                new_active_identifiers |-> result.out_state,
                                round |-> handler_call.round + 1]
    /\ UNCHANGED <<setting, cell_veto, end_of_run, scheduler>>
    /\ UNCHANGED occupancy_vars

\* The call of send_out_state that ends a round.
EndOfChainSendOutStateCall ==
    /\ end_of_chain.pc = "initialized"
    /\ handler_call.op = "send_event_time"
    /\ \E arguments \in EndOfChainOutStateArguments(end_of_chain) :
        \E result \in {EndOfChainSendOutState(end_of_chain, arguments[1], arguments[2])} :
            /\ end_of_chain' = [result.handler EXCEPT
                                    !.pc = IF result.raised # None THEN result.raised ELSE @]
            /\ handler_call' = [handler |-> EndOfChain, op |-> "send_out_state",
                                argument |-> arguments,
                                raised |-> result.raised,
                                result |-> NoneTime,
                                out_state |-> result.out_state,
                                confirmations |-> 0,
                                new_active_identifiers |-> NoneState,
                                round |-> handler_call.round]
    /\ UNCHANGED <<setting, cell_veto, end_of_run, scheduler>>
    /\ UNCHANGED occupancy_vars

\* The end-of-chain handler under either setting, constructed with any chain time.
InitEndOfChain ==
    /\ NoOccupancy
    /\ setting \in Settings
    /\ cell_veto = NoHandler
    /\ end_of_run = NoHandler
    /\ \E chain_time \in (-1)..MaxChainTime :
            end_of_chain = EndOfChainEventHandler(chain_time)
    /\ scheduler = NoScheduler
    /\ handler_call = [handler |-> "None", op |-> "None", argument |-> <<>>, raised |-> None,
                       result |-> NoneTime, out_state |-> NoneState, confirmations |-> 0,
                       new_active_identifiers |-> NoneState, round |-> 0]

NextEndOfChain ==
    \/ EndOfChainSendEventTimeCall
    \/ EndOfChainSendOutStateCall

SpecEndOfChain == InitEndOfChain /\ [][NextEndOfChain]_vars

----------------------------------------------------------------------------
(***************************************************************************)
(* The event loop of the mediator with the end-of-chain handler and, when  *)
(* the run has one, the final-time end-of-run handler: every handler       *)
(* without a candidate time is asked for one, the scheduler selects a      *)
(* handler with the earliest candidate time, and the out-state of that     *)
(* handler is committed.  The event of the end-of-run handler stays in the *)
(* scheduler until it is selected (class docstring, lines 31-42 of         *)
(* final_time_end_of_run_event_handler.py), which ends the run.            *)
(***************************************************************************)

\* The branch the mediator extracts for the identifier nominated by send_event_time, next
\* to the branch of the active unit: the active branch itself, the branch of another leaf
\* unit of the same root node, or a branch at rest.
NominatedBranch(active, identifier) ==
    IF identifier = ActiveUnitOf(active).identifier THEN active
    ELSE IF Len(active.children) = 1
    THEN IF identifier[1] = active.value.identifier[1]
         THEN SameRootBranch(active, identifier[2])
         ELSE BranchAtRest(identifier[1], <<"leaf", identifier[2]>>)
    ELSE BranchAtRest(identifier[1], <<"root", 0>>)

EarliestHandlers_Latest(candidate_times) ==
    {handler \in DOMAIN candidate_times :
        \A other \in DOMAIN candidate_times : candidate_times[handler] >= candidate_times[other]}

\* The handlers the scheduler may select: those with the earliest candidate time.
EarliestHandlers(candidate_times) ==
    {handler \in DOMAIN candidate_times :
        \A other \in DOMAIN candidate_times : candidate_times[handler] <= candidate_times[other]}

\* The candidate times in the scheduler.
CandidateTimes ==
    IF end_of_run = NoHandler
    THEN [handler \in {EndOfChain} |-> scheduler.end_of_chain_time]
    ELSE [handler \in {EndOfChain, FinalTimeEndOfRun} |->
            IF handler = EndOfChain THEN scheduler.end_of_chain_time
            ELSE scheduler.end_of_run_time]

\* The loop is between two events and asks for candidate times.
Asking == scheduler.phase = "running" /\ scheduler.selected = "None"

\* The end-of-run handler is asked once: its event is not trashed by other events.
LoopEndOfRunSendEventTime ==
    /\ Asking
    /\ end_of_run.pc = "initialized"
    /\ scheduler.end_of_run_time = NoneTime
    /\ scheduler' = [scheduler EXCEPT !.end_of_run_time = EndOfRunSendEventTime(end_of_run)]
    /\ handler_call' = [handler |-> FinalTimeEndOfRun, op |-> "send_event_time",
                        argument |-> <<>>, raised |-> None,
                        result |-> EndOfRunSendEventTime(end_of_run), out_state |-> NoneState,
                        confirmations |-> 0]
    /\ UNCHANGED <<setting, cell_veto, end_of_run, end_of_chain>>
    /\ UNCHANGED occupancy_vars

\* The end-of-chain handler is asked after every committed event with the branch of the
\* active unit.  A run without an end-of-run handler is cut after MaxRounds events.
LoopEndOfChainSendEventTime ==
    /\ Asking
    /\ end_of_chain.pc = "initialized"
    /\ scheduler.end_of_chain_time = NoneTime
    /\ end_of_run # NoHandler \/ Len(scheduler.committed) < MaxRounds
    /\ \E root_index \in 0..(setting.number_of_root_nodes - 1),
          node_index \in 0..(setting.number_of_nodes_per_root_node - 1) :
        \E result \in {EndOfChainSendEventTime(end_of_chain, <<scheduler.active_branch>>,
                                               root_index, node_index)} :
            /\ end_of_chain' = [result.handler EXCEPT
                                    !.pc = IF result.raised # None THEN result.raised ELSE @]
            /\ scheduler' = IF result.raised # None
                            THEN [scheduler EXCEPT !.phase = result.raised]
                            ELSE [scheduler EXCEPT
                                    !.end_of_chain_time = result.handler.event_time,
                                    !.new_active_identifier = result.out_state[1][1]]
            /\ handler_call' = [handler |-> EndOfChain, op |-> "send_event_time",
                                argument |-> <<<<scheduler.active_branch>>>>,
                                raised |-> result.raised,
                                result |-> IF result.raised # None THEN NoneTime
                                           ELSE result.handler.event_time,
                                out_state |-> NoneState,
                                confirmations |-> 0,
                                new_active_identifiers |-> result.out_state,
                                round |-> Len(scheduler.velocities)]
    /\ UNCHANGED <<setting, cell_veto, end_of_run>>
    /\ UNCHANGED occupancy_vars

\* The scheduler selects a handler with the earliest candidate time once every handler of
\* the run has one.
LoopSelect ==
    /\ Asking
    /\ \A handler \in DOMAIN CandidateTimes : CandidateTimes[handler] # NoneTime
    /\ \E handler \in EarliestHandlers(CandidateTimes) :
            scheduler' = [scheduler EXCEPT !.selected = handler]
    /\ UNCHANGED <<setting, cell_veto, end_of_run, end_of_chain, handler_call>>
    /\ UNCHANGED occupancy_vars

\* The selected end-of-chain event: the out-state is committed, its last branch is the
\* branch of the active unit from now on, and the handler has no candidate time any more.
LoopEndOfChainSendOutState ==
    /\ scheduler.phase = "running"
    /\ scheduler.selected = EndOfChain
    /\ \E new \in {NominatedBranch(scheduler.active_branch, scheduler.new_active_identifier)} :
        \E result \in {EndOfChainSendOutState(end_of_chain, <<scheduler.active_branch>>, <<new>>)} :
            /\ end_of_chain' = [result.handler EXCEPT
                                    !.pc = IF result.raised # None THEN result.raised ELSE @]
            /\ scheduler' =
                IF result.raised # None
                THEN [scheduler EXCEPT !.phase = result.raised]
                ELSE LET active == result.out_state[Len(result.out_state)]
                     IN  [scheduler EXCEPT
                            !.selected = "None",
                            !.end_of_chain_time = NoneTime,
                            !.new_active_identifier = NoneIdentifier,
                            !.active_branch = active,
                            !.committed = Append(@, scheduler.end_of_chain_time),
                            !.velocities = Append(@, active.value.velocity)]
            /\ handler_call' = [handler |-> EndOfChain, op |-> "send_out_state",
                                argument |-> <<<<scheduler.active_branch>>, <<new>>>>,
                                raised |-> result.raised,
                                result |-> NoneTime,
                                out_state |-> result.out_state,
                                confirmations |-> 0,
                                new_active_identifiers |-> NoneState,
                                round |-> Len(scheduler.velocities)]
    /\ UNCHANGED <<setting, cell_veto, end_of_run>>
    /\ UNCHANGED occupancy_vars

\* The selected end-of-run event: the mediating method of the out-state raises the EndOfRun
\* exception, which ends the loop.
LoopEndOfRunSendOutState ==
    /\ scheduler.phase = "running"
    /\ scheduler.selected = FinalTimeEndOfRun
    /\ \E result \in {EndOfRunSendOutState(end_of_run, <<scheduler.active_branch>>)} :
            /\ end_of_run' = [result.handler EXCEPT
                                !.pc = IF result.raised # None THEN result.raised ELSE @]
            /\ scheduler' =
                IF result.raised # None
                THEN [scheduler EXCEPT !.phase = result.raised]
                ELSE [scheduler EXCEPT
                        !.phase = "EndOfRun",
                        !.active_branch = result.out_state[1]]
            /\ handler_call' = [handler |-> FinalTimeEndOfRun, op |-> "send_out_state",
                                argument |-> <<<<scheduler.active_branch>>>>,
                                raised |-> result.raised,
                                result |-> NoneTime, out_state |-> result.out_state,
                                confirmations |-> 0]
    /\ UNCHANGED <<setting, cell_veto, end_of_chain>>
    /\ UNCHANGED occupancy_vars

\* The run starts at time zero with one active unit of the first root node in motion along
\* one direction, an end-of-chain handler and possibly an end-of-run handler.
InitEventLoop ==
    /\ NoOccupancy
    /\ setting \in Settings
    /\ cell_veto = NoHandler
    /\ \E chain_time \in 1..MaxChainTime : end_of_chain = EndOfChainEventHandler(chain_time)
    /\ end_of_run \in {NoHandler}
            \cup {FinalTimeEndOfRunEventHandler(end_of_run_time) :
                    end_of_run_time \in 1..MaxEndOfRunTime}
    /\ handler_call = NoHandlerCall
    /\ \E shape \in ActiveBranchShapes, velocity \in EndOfChainVelocities :
        \E active \in {ShapedBranch(0, shape, 0, velocity, 0)} :
            scheduler = [phase |-> "running",
                         selected |-> "None",
                         end_of_chain_time |-> NoneTime,
                         end_of_run_time |-> NoneTime,
                         new_active_identifier |-> NoneIdentifier,
                         active_branch |-> active,
                         committed |-> <<>>,
                         velocities |-> <<active.value.velocity>>]

NextEventLoop ==
    \/ LoopEndOfRunSendEventTime
    \/ LoopEndOfChainSendEventTime
    \/ LoopSelect
    \/ LoopEndOfChainSendOutState
    \/ LoopEndOfRunSendOutState

SpecEventLoop == InitEventLoop /\ [][NextEventLoop]_vars

\* The loop is sequential code that takes its next step whenever it has one.
FairSpecEventLoop == SpecEventLoop /\ WF_vars(NextEventLoop)

----------------------------------------------------------------------------
\* Properties of the event handlers.

\* The last call was a send_out_state that returned an out-state.
Served ==
    /\ handler_call.op = "send_out_state"
    /\ handler_call.raised = None
    /\ handler_call.out_state # NoneState

\* The last call was a send_out_state of the cell-veto handler.
CellVetoSentOutState ==
    handler_call.handler = LeafUnitCellVeto /\ handler_call.op = "send_out_state"

\* The leaf unit of the branch of one leaf unit.
LeafUnitOf(branch) ==
    IF Len(branch.children) = 0 THEN branch.value ELSE branch.children[1].value

\* C12 as stated: the calls of a handler alternate, so that a send_out_state is served
\* only directly after a send_event_time of the same instance.
C12_Original ==
    [][Served' => handler_call.op = "send_event_time"]_vars

\* C12: the handlers do not enforce the alternation themselves.  The cell-veto handler
\* serves send_out_state only once a send_event_time has stored an in-state, it serves a
\* target branch only when the stored leaf units and those of the target make two, and a
\* second target branch after the last send_event_time raises the AssertionError.
C12_Protocol ==
    [][(handler_call'.handler = LeafUnitCellVeto /\ handler_call'.op = "send_out_state") =>
          /\ Served' => cell_veto.state # NoneState
          /\ (Served' /\ ~IsNoneNode(handler_call'.argument[1])) =>
                /\ handler_call'.confirmations = 1
                /\ Len(cell_veto.leaf_cnodes)
                     + Len(yield_leaf_nodes(handler_call'.argument[1])) = 2
          /\ handler_call'.confirmations >= 2 => handler_call'.raised = "AssertionError"]_vars

\* A second target branch was sent without a send_event_time in between, after a
\* fictitious event and a served target branch.
C12_Witness ==
    /\ CellVetoSentOutState
    /\ handler_call.confirmations = 2
    /\ handler_call.raised = "AssertionError"
    /\ Len(cell_veto.state) = 3

\* C13: send_out_state(None) of the cell-veto handler returns the stored state and changes
\* nothing in the handler: no branch and no leaf unit is added, the active leaf unit and its
\* index stay.  Directly after send_event_time the returned state is the one branch of the
\* in-state, every unit advanced to the candidate time and still carrying its velocity.
C13_FictitiousEvent ==
    [][(handler_call'.handler = LeafUnitCellVeto /\ handler_call'.op = "send_out_state"
            /\ IsNoneNode(handler_call'.argument[1])) =>
          /\ handler_call'.raised = None
          /\ handler_call'.out_state = cell_veto.state
          /\ cell_veto'.state = cell_veto.state
          /\ cell_veto'.leaf_cnodes = cell_veto.leaf_cnodes
          /\ cell_veto'.active_leaf_unit_index = cell_veto.active_leaf_unit_index
          /\ cell_veto' = cell_veto
          /\ handler_call.op = "send_event_time" =>
                LET in_units == UnitsOfBranch(handler_call.argument[1])
                    out_units == UnitsOfBranches(handler_call'.out_state)
                    time == handler_call.result
                IN  /\ Len(handler_call'.out_state) = 1
                    /\ Len(out_units) = Len(in_units)
                    /\ \A k \in 1..Len(in_units) :
                        /\ out_units[k].identifier = in_units[k].identifier
                        /\ out_units[k].velocity = in_units[k].velocity
                        /\ out_units[k].time_stamp = time
                        /\ \A d \in Directions :
                            out_units[k].position[d] =
                                (in_units[k].position[d]
                                    + in_units[k].velocity[d] * (time - in_units[k].time_stamp))
                                        % SystemLength]_vars

\* A fictitious event returned the branch of a leaf unit of a composite object, which is
\* still in motion.
C13_Witness ==
    /\ CellVetoSentOutState /\ Served
    /\ IsNoneNode(handler_call.argument[1])
    /\ handler_call.confirmations = 0
    /\ Len(handler_call.out_state) = 1
    /\ Len(handler_call.out_state[1].children) = 1
    /\ IsActiveUnit(LeafUnitOf(handler_call.out_state[1]))

\* C14: a served send_out_state with a target branch returns the active branch and the
\* target branch, in this order; the former active leaf unit is at rest at its position of
\* the candidate time, the target leaf unit has kept its position and carries the velocity
\* of the former active leaf unit with the candidate time as its time stamp.
C14_Lift ==
    [][(handler_call'.handler = LeafUnitCellVeto /\ Served'
            /\ ~IsNoneNode(handler_call'.argument[1])) =>
          LET target == handler_call'.argument[1]
              out_state == handler_call'.out_state
              active_before == LeafUnits(cell_veto)[cell_veto.active_leaf_unit_index + 1]
          IN  /\ Len(out_state) = 2
              /\ out_state[1].value.identifier = cell_veto.state[1].value.identifier
              /\ out_state[2].value.identifier = target.value.identifier
              /\ LeafUnitOf(out_state[1]).identifier = active_before.identifier
              /\ LeafUnitOf(out_state[2]).identifier = LeafUnitOf(target).identifier
              /\ LeafUnitOf(out_state[1]).velocity = LeafUnitOf(target).velocity
              /\ LeafUnitOf(out_state[2]).velocity = active_before.velocity
              /\ ~IsActiveUnit(LeafUnitOf(out_state[1]))
              /\ IsActiveUnit(LeafUnitOf(out_state[2]))
              /\ LeafUnitOf(out_state[2]).time_stamp = cell_veto.event_time
              /\ LeafUnitOf(out_state[1]).position = active_before.position
              /\ LeafUnitOf(out_state[2]).position = LeafUnitOf(target).position
              /\ \A k \in 1..Len(UnitsOfBranches(out_state)) :
                    IsActiveUnit(UnitsOfBranches(out_state)[k]) =>
                        UnitsOfBranches(out_state)[k].time_stamp = cell_veto.event_time]_vars

\* A lift between leaf units of two composite objects.
C14_Witness ==
    /\ CellVetoSentOutState /\ Served
    /\ ~IsNoneNode(handler_call.argument[1])
    /\ Len(handler_call.out_state) = 2
    /\ Len(handler_call.out_state[2].children) = 1
    /\ IsActiveUnit(handler_call.out_state[2].value)
    /\ handler_call.out_state[1].value.identifier # handler_call.out_state[2].value.identifier

----------------------------------------------------------------------------
\* Properties of the end-of-chain event handler.

\* The last call was a send_event_time of the end-of-chain handler that returned.
EndOfChainReturnedEventTime ==
    /\ handler_call.handler = EndOfChain
    /\ handler_call.op = "send_event_time"
    /\ handler_call.raised = None

\* The last call was a send_out_state of the end-of-chain handler that returned.
EndOfChainReturnedOutState ==
    handler_call.handler = EndOfChain /\ Served

\* The root unit of the only branch of the in-state of the last send_event_time.
InStateUnit == handler_call.argument[1][1].value

\* C15: the k-th send_event_time of a handler with chain time c returns k * c, whatever
\* time stamp of the window the active unit carries; with c > 0 the candidate times of a
\* run increase strictly.
C15_ChainTime ==
    EndOfChainReturnedEventTime =>
        /\ end_of_chain.chain_time > 0
        /\ handler_call.result = handler_call.round * end_of_chain.chain_time
        /\ handler_call.result > (handler_call.round - 1) * end_of_chain.chain_time

\* The third round of a handler with the largest chain time, the active unit stamped
\* inside the window.
C15_Witness ==
    /\ EndOfChainReturnedEventTime
    /\ handler_call.round = MaxRounds
    /\ end_of_chain.chain_time = MaxChainTime
    /\ handler_call.result = MaxRounds * MaxChainTime
    /\ InStateUnit.time_stamp = (MaxRounds - 1) * MaxChainTime + 1

\* C16 as stated: the candidate time is the time stamp of the active unit plus the chain
\* time.
C16_Original ==
    EndOfChainReturnedEventTime =>
        handler_call.result = InStateUnit.time_stamp + end_of_chain.chain_time

\* C16: the candidate time is the previous candidate time of the handler (0 before the
\* first round) plus the chain time, and the handler keeps it; the time stamp of the active
\* unit does not enter it.
C16_CandidateTime ==
    [][(handler_call'.handler = EndOfChain /\ handler_call'.op = "send_event_time"
            /\ handler_call'.raised = None) =>
          /\ handler_call'.result = end_of_chain.event_time + end_of_chain.chain_time
          /\ end_of_chain'.event_time = handler_call'.result
          /\ end_of_chain'.chain_time = end_of_chain.chain_time]_vars

\* A candidate time that is earlier than the time stamp plus the chain time.
C16_Witness ==
    /\ EndOfChainReturnedEventTime
    /\ handler_call.round >= 2
    /\ handler_call.result < InStateUnit.time_stamp + end_of_chain.chain_time

\* C17: send_event_time with the branch of an active unit returns exactly when the time
\* stamp lies between the previous candidate time and the next one, both included, and
\* raises the AssertionError otherwise, for every kind of active unit.
C17_Window ==
    [][(/\ handler_call'.handler = EndOfChain /\ handler_call'.op = "send_event_time"
        /\ Len(handler_call'.argument[1]) = 1
        /\ IsActiveUnit(handler_call'.argument[1][1].value)) =>
          LET time_stamp == handler_call'.argument[1][1].value.time_stamp
          IN  /\ (handler_call'.raised = None) <=>
                    /\ end_of_chain.event_time <= time_stamp
                    /\ time_stamp <= end_of_chain.event_time + end_of_chain.chain_time
              /\ handler_call'.raised \in {None, "AssertionError"}]_vars

\* After a round, the time stamp of an active root unit with its children lies one step
\* beyond the next candidate time.
C17_Witness ==
    /\ handler_call.handler = EndOfChain /\ handler_call.op = "send_event_time"
    /\ handler_call.raised = "AssertionError"
    /\ handler_call.round >= 2
    /\ Len(handler_call.argument[1]) = 1
    /\ Len(handler_call.argument[1][1].children) = 2
    /\ IsActiveUnit(InStateUnit)
    /\ InStateUnit.time_stamp = end_of_chain.event_time + end_of_chain.chain_time + 1

\* The identifiers of the active unit and of the new active unit of the last send_out_state.
ActiveIdentifier == ActiveUnitOf(handler_call.argument[1][1]).identifier
NewIdentifier == ActiveUnitOf(handler_call.argument[2][1]).identifier

\* The unit has the position it reaches at the given time, in the periodic box.
AdvancedTo(out_unit, in_unit, time) ==
    \A d \in Directions :
        out_unit.position[d] =
            (in_unit.position[d] + in_unit.velocity[d] * (time - in_unit.time_stamp))
                % SystemLength

\* The unit is in motion at the given time with the velocity value of the other unit in
\* the next direction.
TurnedAt(out_unit, in_unit, time) ==
    /\ out_unit.time_stamp = time
    /\ \A d \in Directions : out_unit.velocity[(d % Dimension) + 1] = in_unit.velocity[d]

\* C18 as stated: with differing identifiers the out-state is [outgoing, incoming], every
\* unit of the outgoing branch is at rest at its advanced position, the incoming branch
\* keeps its positions, and exactly one of the two branches is active.
C18_Original ==
    (EndOfChainReturnedOutState /\ ActiveIdentifier # NewIdentifier) =>
        LET outgoing_before == UnitsOfBranch(handler_call.argument[1][1])
            incoming_before == UnitsOfBranch(handler_call.argument[2][1])
            outgoing == UnitsOfBranch(handler_call.out_state[1])
            incoming == UnitsOfBranch(handler_call.out_state[Len(handler_call.out_state)])
        IN  /\ Len(handler_call.out_state) = 2
            /\ \A k \in 1..Len(outgoing) :
                /\ AdvancedTo(outgoing[k], outgoing_before[k], end_of_chain.event_time)
                /\ outgoing[k].velocity = NoneVelocity
                /\ outgoing[k].time_stamp = NoneTime
            /\ \A k \in 1..Len(incoming) :
                /\ incoming[k].position = incoming_before[k].position
                /\ TurnedAt(incoming[k], outgoing_before[k], end_of_chain.event_time)
            /\ ~IsActiveUnit(handler_call.out_state[1].value)
            /\ IsActiveUnit(handler_call.out_state[2].value)

\* C18: with differing identifiers the out-state is [outgoing, incoming].  A unit of the
\* outgoing branch that is not part of the incoming branch is at rest at its advanced
\* position; the unit at its place in the incoming branch keeps its position and is in
\* motion at the candidate time with the outgoing velocity value in the next direction.
\* When the new leaf unit belongs to the root node of the active leaf unit, the root unit
\* is part of both branches: in both it has its advanced position and is in motion at the
\* candidate time with its velocity value in the next direction.  Only between different
\* root nodes exactly one branch, the incoming one, is active afterwards.
C18_TwoBranches ==
    (EndOfChainReturnedOutState /\ ActiveIdentifier # NewIdentifier) =>
        LET outgoing_before == UnitsOfBranch(handler_call.argument[1][1])
            incoming_before == UnitsOfBranch(handler_call.argument[2][1])
            outgoing == UnitsOfBranch(handler_call.out_state[1])
            incoming == UnitsOfBranch(handler_call.out_state[Len(handler_call.out_state)])
            time == end_of_chain.event_time
        IN  /\ Len(handler_call.out_state) = 2
            /\ Len(outgoing) = Len(outgoing_before)
            /\ Len(incoming) = Len(incoming_before)
            /\ \A k \in 1..Len(outgoing) :
                /\ outgoing[k].identifier = outgoing_before[k].identifier
                /\ incoming[k].identifier = incoming_before[k].identifier
                /\ AdvancedTo(outgoing[k], outgoing_before[k], time)
                /\ TurnedAt(incoming[k], outgoing_before[k], time)
                /\ IF outgoing_before[k].identifier = incoming_before[k].identifier
                   THEN /\ outgoing[k] = incoming[k]
                        /\ k = 1
                   ELSE /\ outgoing[k].velocity = NoneVelocity
                        /\ outgoing[k].time_stamp = NoneTime
                        /\ incoming[k].position = incoming_before[k].position
            /\ IsActiveUnit(handler_call.out_state[2].value)
            /\ (outgoing_before[1].identifier # incoming_before[1].identifier) =>
                    \A k \in 1..Len(outgoing) : ~IsActiveUnit(outgoing[k])

\* The new active leaf unit belongs to the root node of the active leaf unit: the root unit
\* is in motion in both branches of the out-state.
C18_Witness ==
    /\ EndOfChainReturnedOutState
    /\ ActiveIdentifier # NewIdentifier
    /\ Len(handler_call.out_state) = 2
    /\ handler_call.out_state[1].value.identifier = handler_call.out_state[2].value.identifier
    /\ IsActiveUnit(handler_call.out_state[1].value)
    /\ IsActiveUnit(handler_call.out_state[2].value)
    /\ handler_call.out_state[1].value.position # handler_call.argument[1][1].value.position

\* C19: with equal identifiers the out-state is the one branch of the active unit; each of
\* its units has its position of the candidate time and is in motion at the candidate time
\* with its velocity value in the next direction.
C19_SameIdentifier ==
    (EndOfChainReturnedOutState /\ ActiveIdentifier = NewIdentifier) =>
        LET before == UnitsOfBranch(handler_call.argument[1][1])
            after == UnitsOfBranches(handler_call.out_state)
        IN  /\ Len(handler_call.out_state) = 1
            /\ Len(after) = Len(before)
            /\ \A k \in 1..Len(after) :
                /\ after[k].identifier = before[k].identifier
                /\ AdvancedTo(after[k], before[k], end_of_chain.event_time)
                /\ TurnedAt(after[k], before[k], end_of_chain.event_time)
                /\ IsActiveUnit(after[k])

\* A root unit with its children, moving backwards along the last direction, is nominated
\* again: it turns to the first direction.
C19_Witness ==
    /\ EndOfChainReturnedOutState
    /\ ActiveIdentifier = NewIdentifier
    /\ Len(handler_call.out_state) = 1
    /\ Len(handler_call.out_state[1].children) = 2
    /\ handler_call.argument[1][1].value.velocity[Dimension] < 0
    /\ handler_call.out_state[1].value.velocity[1] < 0
    /\ handler_call.out_state[1].value.position # handler_call.argument[1][1].value.position

\* C20: send_event_time returns one nested list holding one identifier; the identifier is
\* as long as the identifier of the active unit, its first component is a root node index
\* and its second component, drawn when a leaf unit of a composite object is active, a
\* node index below a root node; an active root unit nominates a root identifier.
C20_NominatedIdentifier ==
    EndOfChainReturnedEventTime =>
        LET in_branch == handler_call.argument[1][1]
            identifiers == handler_call.new_active_identifiers
        IN  /\ Len(identifiers) = 1
            /\ Len(identifiers[1]) = 1
            /\ LET identifier == identifiers[1][1]
               IN  /\ Len(identifier) \in 1..setting.number_of_node_levels
                   /\ identifier[1] \in 0..(setting.number_of_root_nodes - 1)
                   /\ Len(identifier) = 2 =>
                        identifier[2] \in 0..(setting.number_of_nodes_per_root_node - 1)
                   /\ (Len(in_branch.children) = 1) <=> (Len(identifier) = 2)
                   /\ Len(in_branch.children) # 1 => identifier \in RootIdentifiers

\* The last leaf unit of the last composite object is nominated for an active leaf unit.
C20_Witness ==
    /\ EndOfChainReturnedEventTime
    /\ Len(handler_call.argument[1][1].children) = 1
    /\ handler_call.new_active_identifiers =
            <<<<<<NumberOfRootNodes - 1, NumberOfNodesPerRootNode - 1>>>>>>

\* The last call was a call of the end-of-chain handler.
EndOfChainCalled(op) == handler_call.handler = EndOfChain /\ handler_call.op = op

\* C21: send_event_time takes one sequence of branches and send_out_state takes two; a
\* call with a sequence that does not hold exactly one branch raises the AssertionError.
C21_ArgumentCounts ==
    /\ number_send_event_time_arguments = 1
    /\ number_send_out_state_arguments = 2
    /\ EndOfChainCalled("send_event_time") =>
        /\ Len(handler_call.argument) = number_send_event_time_arguments
        /\ Len(handler_call.argument[1]) # 1 => handler_call.raised = "AssertionError"
    /\ EndOfChainCalled("send_out_state") =>
        /\ Len(handler_call.argument) = number_send_out_state_arguments
        /\ (Len(handler_call.argument[1]) # 1 \/ Len(handler_call.argument[2]) # 1) =>
                handler_call.raised = "AssertionError"

\* send_out_state was called with two branches in both arguments, the first ones of which
\* would have made a regular call.
C21_Witness ==
    /\ EndOfChainCalled("send_out_state")
    /\ Len(handler_call.argument[1]) = 2
    /\ Len(handler_call.argument[2]) = 2
    /\ IsActiveUnit(handler_call.argument[1][1].value)
    /\ handler_call.raised = "AssertionError"
    /\ end_of_chain.pc = "AssertionError"

\* The last call of the end-of-chain handler received, as its first argument, the one
\* branch of an active unit whose velocity has more than one nonzero component.
SeveralVelocityComponents ==
    /\ Len(handler_call.argument[1]) = 1
    /\ IsActiveUnit(handler_call.argument[1][1].value)
    /\ \E d \in Directions : \E e \in Directions \ {d} :
            /\ handler_call.argument[1][1].value.velocity[d] # 0
            /\ handler_call.argument[1][1].value.velocity[e] # 0

\* C22 as stated: send_event_time fails for an active unit with two nonzero velocity
\* components.
C22_Original ==
    (EndOfChainCalled("send_event_time") /\ SeveralVelocityComponents) =>
        handler_call.raised # None

\* C22: send_event_time of the end-of-chain handler does not look at the velocity
\* components: for an active unit with two nonzero components it returns the candidate time
\* and an identifier as for any other velocity, and fails only for a time stamp outside the
\* window; the velocity is checked by the send_out_state that follows.
C22_VelocityComponents ==
    (EndOfChainCalled("send_event_time") /\ SeveralVelocityComponents) =>
        LET time_stamp == handler_call.argument[1][1].value.time_stamp
        IN  IF handler_call.raised = None
            THEN /\ handler_call.result = end_of_chain.event_time
                 /\ handler_call.result - end_of_chain.chain_time <= time_stamp
                 /\ time_stamp <= handler_call.result
                 /\ Len(handler_call.new_active_identifiers) = 1
            ELSE \/ time_stamp < end_of_chain.event_time
                 \/ time_stamp > end_of_chain.event_time + end_of_chain.chain_time

\* send_event_time returned a candidate time for a root unit with two nonzero velocity
\* components.
C22_Witness ==
    /\ EndOfChainCalled("send_event_time")
    /\ SeveralVelocityComponents
    /\ handler_call.raised = None
    /\ handler_call.result > 0
    /\ Len(handler_call.argument[1][1].children) = 2

\* C23: send_out_state raises the AssertionError for an active branch whose velocity has
\* more than one nonzero component, whatever the kind of the active unit and whatever the
\* branch of the new active unit.
C23_OutStateVelocityComponents ==
    (/\ EndOfChainCalled("send_out_state")
     /\ Len(handler_call.argument[2]) = 1
     /\ SeveralVelocityComponents) =>
        /\ handler_call.raised = "AssertionError"
        /\ handler_call.out_state = NoneState

\* send_out_state raised for an active leaf unit of a composite object with two velocity
\* components, after a send_event_time that had returned.
C23_Witness ==
    /\ EndOfChainCalled("send_out_state")
    /\ Len(handler_call.argument[2]) = 1
    /\ SeveralVelocityComponents
    /\ Len(handler_call.argument[1][1].children) = 1
    /\ handler_call.raised = "AssertionError"
    /\ handler_call.round >= 1

\* C24: a branch without a velocity in the place of the active branch is rejected:
\* send_event_time raises the AssertionError for one branch at rest, and send_out_state
\* raises it when the one branch of its first argument is at rest.
C24_InactiveBranch ==
    (/\ handler_call.handler = EndOfChain
     /\ Len(handler_call.argument[1]) = 1
     /\ ~IsActiveUnit(handler_call.argument[1][1].value)) =>
        /\ handler_call.raised = "AssertionError"
        /\ handler_call.result = NoneTime
        /\ handler_call.out_state = NoneState

\* send_out_state raised for swapped arguments: the branch at rest first, the active branch
\* second.
C24_Witness ==
    /\ EndOfChainCalled("send_out_state")
    /\ Len(handler_call.argument[1]) = 1
    /\ Len(handler_call.argument[2]) = 1
    /\ ~IsActiveUnit(handler_call.argument[1][1].value)
    /\ IsActiveUnit(handler_call.argument[2][1].value)
    /\ handler_call.raised = "AssertionError"

----------------------------------------------------------------------------
\* Properties of the FinalTimeEndOfRunEventHandler.

\* The last call was a call of the end-of-run handler.
EndOfRunCalled(op) == handler_call.handler = FinalTimeEndOfRun /\ handler_call.op = op

\* C25: every send_event_time returns the end_of_run_time of the construction, after any
\* number of calls of send_event_time and send_out_state, and leaves the handler as it was;
\* send_out_state does not change the event time either.
C25_EventTime ==
    [][/\ (handler_call'.handler = FinalTimeEndOfRun
                /\ handler_call'.op = "send_event_time") =>
            /\ handler_call'.raised = None
            /\ handler_call'.result = end_of_run.end_of_run_time
            /\ handler_call'.argument = <<>>
            /\ end_of_run' = end_of_run
       /\ end_of_run'.pc = "initialized" =>
            /\ end_of_run'.event_time = end_of_run.event_time
            /\ end_of_run'.end_of_run_time = end_of_run.end_of_run_time]_vars

\* send_event_time was called after a send_out_state had stored and time-sliced two
\* branches.
C25_Witness ==
    /\ EndOfRunCalled("send_event_time")
    /\ end_of_run.state # NoneState
    /\ Len(end_of_run.state) = 2
    /\ handler_call.result = MaxEndOfRunTime

\* The position a unit of the in-state has at the given time, in the periodic box.
PositionAtTime(unit, time) ==
    IF ~IsActiveUnit(unit) THEN unit.position
    ELSE [d \in Directions |->
            (unit.position[d] + unit.velocity[d] * (time - unit.time_stamp)) % SystemLength]

AllAtRest(branches) ==
    \A k \in 1..Len(UnitsOfBranches(branches)) : ~IsActiveUnit(UnitsOfBranches(branches)[k])

StampedAfter(branches, time) ==
    \E k \in 1..Len(UnitsOfBranches(branches)) :
        /\ IsActiveUnit(UnitsOfBranches(branches)[k])
        /\ UnitsOfBranches(branches)[k].time_stamp > time

C29_EndOfRunTime ==
    end_of_run # NoHandler =>
        /\ (end_of_run.end_of_run_time <= 0) => end_of_run.pc = "ConfigurationError"
        /\ (end_of_run.end_of_run_time > 0) => end_of_run.pc # "ConfigurationError"
        /\ end_of_run.pc = "initialized" =>
                /\ end_of_run.event_time = end_of_run.end_of_run_time
                /\ end_of_run.event_time > 0

\* The construction with the end_of_run_time 0.
C29_Witness ==
    /\ end_of_run # NoHandler
    /\ end_of_run.end_of_run_time = 0
    /\ end_of_run.pc = "ConfigurationError"
    /\ handler_call = NoHandlerCall

\* C30: the construction of the end-of-chain handler raises the ConfigurationError for the
\* chain time 0 and for a negative chain time, and yields a handler for every positive one.
C30_ChainTime ==
    end_of_chain # NoHandler =>
        /\ (end_of_chain.chain_time <= 0) => end_of_chain.pc = "ConfigurationError"
        /\ (end_of_chain.chain_time > 0) => end_of_chain.pc # "ConfigurationError"
        /\ handler_call.handler = EndOfChain => end_of_chain.chain_time > 0

\* The construction with the chain time 0.
C30_Witness ==
    /\ end_of_chain # NoHandler
    /\ end_of_chain.chain_time = 0
    /\ end_of_chain.pc = "ConfigurationError"
    /\ handler_call.op = "None"

\* C31: constructing SingleActiveCellOccupancy with a charge name and a cell level above the
\* deepest node level raises ConfigurationError; without a charge name the construction
\* succeeds for every cell level, and on the deepest level it succeeds with every charge.
C31_ChargeNeedsLeafLevel ==
    /\ (charge # None /\ cell_level < NumberOfNodeLevels) => pc = "ConfigurationError"
    /\ charge = None => pc # "ConfigurationError"
    /\ cell_level = NumberOfNodeLevels => pc # "ConfigurationError"

\* The constructor was given a charge name together with the level of the root nodes of a
\* composite system and raised.
C31_Witness ==
    /\ call.op = "__init__"
    /\ pc = "ConfigurationError"
    /\ charge = ChargeName
    /\ cell_level = 1
    /\ NumberOfNodeLevels = 2

\* C33: in every state reached by initialize and any sequence of updates, also one that ends
\* in a raised exception, no cell is mapped to an empty surplus list: the update that removes
\* the last identifier of a surplus list deletes the entry of the cell.
C33_NoEmptySurplusList ==
    pc \notin {"constructed", "ConfigurationError"} =>
        \A i \in 1..Len(surplus) : Len(surplus[i].value) > 0

\* An update with capacity one made a unit active whose cell keeps its one occupant, so the
\* unit was the only identifier in the surplus list of the cell, and the entry is gone.
C33_Witness ==
    /\ Usable
    /\ UpdatedWithOneUnit
    /\ maximum_number_occupants = 1
    /\ active_unit_identifier = NewActiveUnit.identifier
    /\ call.previous_active_unit_identifier # active_unit_identifier
    /\ active_cell = NewActiveUnit.cell
    /\ Len(Lookup(active_cell)) = 1
    /\ ~DictHasKey(surplus, active_cell)

\* initialize met exactly three relevant units of the cell level in the given cell.
ThreeUnitsInCell(cell) ==
    /\ call.op = "initialize"
    /\ maximum_number_occupants = 1
    /\ Len(RelevantInCell(call.extracted_global_state, cell)) = 3

\* C34 as stated: with capacity one and three relevant units in one cell, initialize leaves
\* the first two identifiers in the occupant list and only the third in the surplus list.
C34_Original ==
    \A cell \in Cells :
        ThreeUnitsInCell(cell) =>
            LET met == RelevantInCell(call.extracted_global_state, cell)
            IN  /\ Lookup(cell) = <<met[1], met[2]>>
                /\ DictGet(surplus, cell, <<>>) = <<met[3]>>

\* C34: with capacity one and three relevant units in one cell, initialize leaves the first
\* identifier as the only occupant of the cell and the second and the third identifier, in
\* this order, in the surplus list of the cell.
C34_CapacityOne ==
    \A cell \in Cells :
        ThreeUnitsInCell(cell) =>
            LET met == RelevantInCell(call.extracted_global_state, cell)
            IN  /\ Lookup(cell) = <<met[1]>>
                /\ DictGet(surplus, cell, <<>>) = <<met[2], met[3]>>

\* initialize with capacity one met three relevant units in one cell.
C34_Witness ==
    \E cell \in Cells :
        /\ ThreeUnitsInCell(cell)
        /\ Len(Lookup(cell)) = 1
        /\ Len(DictGet(surplus, cell, <<>>)) = 2

C35_TwoLeafUnits ==
    (CellVetoSentOutState /\ ~IsNoneNode(handler_call.argument[1])
        /\ cell_veto.state # NoneState) =>
        /\ Served <=> Len(cell_veto.leaf_cnodes) = 2
        /\ ~Served => handler_call.raised = "AssertionError"
        /\ Len(yield_leaf_nodes(handler_call.argument[1])) >= 1
        /\ Len(yield_leaf_nodes(handler_call.argument[1])) >= 2 =>
                handler_call.raised = "AssertionError"

\* Directly after a send_event_time a whole composite object with two leaf units was sent
\* as the target branch, and the assertion failed with three leaf units.
C35_Witness ==
    /\ CellVetoSentOutState
    /\ handler_call.confirmations = 1
    /\ ~IsNoneNode(handler_call.argument[1])
    /\ Len(yield_leaf_nodes(handler_call.argument[1])) = 2
    /\ Len(cell_veto.leaf_cnodes) = 3
    /\ handler_call.raised = "AssertionError"

\* The identifiers the index holds for a cell: its occupants and then its surplus.
HeldInCell(occupant_lists, surplus_lists, cell) ==
    occupant_lists[cell] \o DictGet(surplus_lists, cell, <<>>)

\* C38: with capacity K > 0, after initialize and any sequence of successful updates a cell
\* with a surplus list has exactly K occupants: no identifier waits in the surplus list while
\* an occupant slot of its cell is free.
C38_SurplusOnlyForFullCells ==
    (Usable /\ maximum_number_occupants > 0) =>
        \A cell \in Cells :
            DictHasKey(surplus, cell) => Len(Lookup(cell)) = maximum_number_occupants

\* The last call was an update that raised.
UpdateRaised == call'.op = "update" /\ pc = "initialized" /\ pc' # "initialized"

\* C39 as stated: an update that raises leaves the occupant lists, the surplus lists, the
\* active identifier and the active cell as they were before the call.
C39_Original ==
    [][UpdateRaised => UNCHANGED <<occupants, surplus, active_unit_identifier, active_cell>>]_vars

\* C39: an update that fails the assertion on the number of units changes nothing.  An
\* update whose new relevant identifier is neither an occupant nor in the surplus list of the
\* cell of its position raises KeyError or ValueError after the first half of the update is
\* done: the previous active identifier is back in the index, in the previous active cell,
\* and the new identifier and its cell are recorded as active; no other list has changed.
C39_PartialCommit ==
    [][UpdateRaised =>
          LET units == call'.active_units_on_cell_level
          IN  /\ pc' \in {"AssertionError", "KeyError", "ValueError"}
              /\ pc' = "AssertionError" <=> Len(units) # 1
              /\ pc' = "AssertionError" =>
                    UNCHANGED <<occupants, surplus, active_unit_identifier, active_cell>>
              /\ pc' # "AssertionError" =>
                    /\ units[1].identifier # active_unit_identifier
                    /\ ~Contains(HeldInCell(occupants, surplus, units[1].cell), units[1].identifier)
                    /\ pc' = "KeyError" <=> ~DictHasKey(surplus', units[1].cell)
                    /\ active_unit_identifier' = units[1].identifier
                    /\ active_cell' = units[1].cell
                    /\ \A cell \in Cells :
                          HeldInCell(occupants', surplus', cell) =
                              IF active_unit_identifier # NoneIdentifier /\ cell = active_cell
                              THEN IF Len(occupants'[cell]) > Len(occupants[cell])
                                   THEN occupants[cell] \o <<active_unit_identifier>>
                                            \o DictGet(surplus, cell, <<>>)
                                   ELSE HeldInCell(occupants, surplus, cell)
                                            \o <<active_unit_identifier>>
                              ELSE HeldInCell(occupants, surplus, cell)]_vars

\* An update raised after it had returned the previous active identifier to the index and
\* recorded the new one.
C39_Witness ==
    /\ pc \in {"KeyError", "ValueError"}
    /\ call.op = "update"
    /\ call.previous_active_unit_identifier # NoneIdentifier
    /\ active_unit_identifier = NewActiveUnit.identifier
    /\ active_unit_identifier # call.previous_active_unit_identifier
    /\ Contains(StoredIdentifiers, call.previous_active_unit_identifier)

\* C40: an update with another identifier puts the previous active identifier into the
\* occupant list or the surplus list of the cell recorded as the active cell at that moment,
\* and into no list of another cell: when updates with the unchanged identifier had moved the
\* recorded cell from c1 to c2, the identifier goes to c2 and not to c1.
C40_MostRecentActiveCell ==
    [][(UpdateWithOtherUnit /\ active_unit_identifier # NoneIdentifier) =>
          /\ Contains(HeldInCell(occupants', surplus', active_cell), active_unit_identifier)
          /\ \A cell \in Cells \ {active_cell} :
                ~Contains(HeldInCell(occupants', surplus', cell), active_unit_identifier)
          /\ call'.previous_moved_from # NoneCell =>
                /\ call'.previous_moved_from # active_cell
                /\ ~Contains(HeldInCell(occupants', surplus', call'.previous_moved_from),
                             active_unit_identifier)]_vars

\* Updates with the unchanged identifier moved the recorded active cell, and the next update
\* with another identifier returned the previous one to the cell recorded last.
C40_Witness ==
    /\ Usable
    /\ UpdatedWithOneUnit
    /\ call.previous_active_unit_identifier # NoneIdentifier
    /\ call.previous_active_unit_identifier # NewActiveUnit.identifier
    /\ call.previous_moved_from # NoneCell
    /\ \E cell \in Cells \ {call.previous_moved_from} :
            Contains(HeldInCell(occupants, surplus, cell), call.previous_active_unit_identifier)
    /\ ~Contains(HeldInCell(occupants, surplus, call.previous_moved_from),
                 call.previous_active_unit_identifier)

----------------------------------------------------------------------------
\* Properties of the event loop.

\* The velocity has exactly one nonzero component.
OneDimensional(velocity) ==
    Cardinality({d \in Directions : velocity[d] # 0}) = 1

\* The second velocity is the first one along the next direction, with the same signed value.
NextOf(velocity, turned) ==
    \A d \in Directions : turned[(d % Dimension) + 1] = velocity[d]

\* C36: the end-of-chain handler preserves one-dimensional motion: every unit in motion in
\* its out-state has exactly one nonzero velocity component, the one of the unit at the same
\* place of the active branch moved to the next direction with the same signed value; from
\* one event of a run to the next the velocity of the active branch moves to the next
\* direction, and after Dimension events in a row it is the velocity it was.
C36_DirectionCycle ==
    scheduler.phase # "None" =>
        LET velocities == scheduler.velocities
        IN  /\ \A k \in 1..Len(velocities) : OneDimensional(velocities[k])
            /\ \A k \in 1..(Len(velocities) - 1) : NextOf(velocities[k], velocities[k + 1])
            /\ \A k \in 1..(Len(velocities) - Dimension) :
                    velocities[k + Dimension] = velocities[k]
            /\ EndOfChainReturnedOutState =>
                    LET active == handler_call.argument[1][1]
                    IN  \A b \in 1..Len(handler_call.out_state) :
                        \A p \in 0..Len(active.children) :
                            LET unit == UnitAtPlace(handler_call.out_state[b], p)
                            IN  IsActiveUnit(unit) =>
                                    /\ OneDimensional(unit.velocity)
                                    /\ NextOf(UnitAtPlace(active, p).velocity, unit.velocity)

\* Dimension events of the end-of-chain handler were committed in a row, the last one with
\* two branches, and the active unit has its first velocity again.
C36_Witness ==
    /\ scheduler.phase = "running"
    /\ Len(scheduler.velocities) = Dimension + 1
    /\ scheduler.velocities[Dimension + 1] = scheduler.velocities[1]
    /\ scheduler.velocities[2] # scheduler.velocities[1]
    /\ EndOfChainReturnedOutState
    /\ Len(handler_call.out_state) = 2

\* The run has an end-of-run handler next to the end-of-chain handler.
RunWithEndOfRun ==
    /\ scheduler.phase # "None"
    /\ end_of_run # NoHandler
    /\ end_of_run.end_of_run_time > 0
    /\ end_of_chain.chain_time > 0

\* C37: in the event loop with a final-time end-of-run handler (end_of_run_time T > 0) and
\* an end-of-chain handler (chain_time > 0), whose scheduler always selects an earliest
\* candidate time, no event with a candidate time after T is committed, and the end-of-run
\* event is eventually selected and ends the run.
C37_Termination ==
    /\ [](RunWithEndOfRun =>
            /\ \A k \in 1..Len(scheduler.committed) :
                    scheduler.committed[k] <= end_of_run.end_of_run_time
            /\ scheduler.phase \in {"running", "EndOfRun"})
    /\ RunWithEndOfRun ~> (scheduler.phase = "EndOfRun")

\* The end-of-run event ended a run after two events of the end-of-chain handler, the
\* second of which had the candidate time of the end-of-run event.
C37_Witness ==
    /\ scheduler.phase = "EndOfRun"
    /\ Len(scheduler.committed) = 2
    /\ scheduler.committed[2] = end_of_run.end_of_run_time
    /\ handler_call.handler = FinalTimeEndOfRun
    /\ Served

====
